---------------------------- MODULE Spec2Model ----------------------------
(***************************************************************************)
(* Sony IMX290/IMX327 sensor driver (drivers/media/i2c/imx290.c):         *)
(* the conditional register-sequence engine, the runtime-PM power         *)
(* callbacks and the stream on/off path, as a state machine.              *)
(***************************************************************************)
EXTENDS Integers, Sequences, FiniteSets, TLC

VARIABLES
  nlanes, inck, type, fps,      \* struct imx290: wiring, clock class, variant, frame-rate class
  current_mode, code, bpp,      \* struct imx290: current_mode, current_format.code, bpp
  reg_3007, vmax,               \* struct imx290: cached flip/winmode byte, vertical line total
  ctrl,                         \* values held by the v4l2 control handler
  usage, powered,               \* runtime PM: usage count, status RPM_ACTIVE
  xclk, supplies, rst,          \* enable count of clock and supply rails, level of the reset line
  pc, streaming,                \* position of the s_stream request, the caller's stream state
  io,                           \* events of the current request: bus writes, sleeps, resources, returns
  req,                          \* the request served last: <<name, return value>>
  t_in, t_out                   \* input and result of a function applied on its own

vars == <<nlanes, inck, type, fps, current_mode, code, bpp, reg_3007, vmax, ctrl,
          usage, powered, xclk, supplies, rst, pc, streaming, io, req,
          t_in, t_out>>

-----------------------------------------------------------------------------
(* Register addresses and condition bits *)

IMX290_STANDBY == 12288       \* 0x3000
IMX290_REGHOLD == 12289       \* 0x3001
IMX290_XMSTA == 12290         \* 0x3002
IMX290_BLKLEVEL_LOW == 12298  \* 0x300a
IMX290_BLKLEVEL_HIGH == 12299 \* 0x300b
IMX290_GAIN == 12308          \* 0x3014
IMX290_PGCTRL == 12428        \* 0x308c

COND_25_FPS == 1
COND_30_FPS == 2
COND_50_FPS == 4
COND_60_FPS == 8
COND_25_30_FPS == 3
COND_50_60_FPS == 12
COND_FPS_msk == 15
COND_2_LANES == 16
COND_4_LANES == 32
COND_LANES_msk == 48
COND_INCK_37 == 64
COND_INCK_74 == 128
COND_INCK_msk == 192

FPS_25 == 0
FPS_30 == 1
FPS_50 == 2
FPS_60 == 3
INCK_37 == 0
INCK_74 == 1
IMX290_TYPE_290 == 0
IMX290_TYPE_327 == 1

EIO == 0 - 5
ENXIO == 0 - 6
EINVAL == 0 - 22

\* the errors a failing bus transfer, clock or regulator call can return
BusErrs == {EIO, ENXIO}

\* bit i of the byte c
Bit(c, i) == (c \div (2 ^ i)) % 2

\* c & m for bytes
BitAnd(c, m) ==
  Bit(c, 0) * Bit(m, 0) + 2 * Bit(c, 1) * Bit(m, 1) + 4 * Bit(c, 2) * Bit(m, 2)
  + 8 * Bit(c, 3) * Bit(m, 3) + 16 * Bit(c, 4) * Bit(m, 4) + 32 * Bit(c, 5) * Bit(m, 5)
  + 64 * Bit(c, 6) * Bit(m, 6) + 128 * Bit(c, 7) * Bit(m, 7)

-----------------------------------------------------------------------------
(* Condition evaluator *)

\* the clock switch rejecting nothing
inck_reject_never(k, cond) == FALSE

\* the switch over imx290->inck
inck_reject(k, cond) ==
  CASE k = INCK_37 -> BitAnd(cond, COND_INCK_74) = 0
    [] k = INCK_74 -> BitAnd(cond, COND_INCK_37) = 0
    [] OTHER -> TRUE

\* fps_reject with the 30 fps case testing the 25 fps bit
fps_reject_25for30(f, cond) ==
  CASE f = FPS_25 -> BitAnd(cond, COND_25_FPS) = 0
    [] f = FPS_30 -> BitAnd(cond, COND_25_FPS) = 0
    [] f = FPS_50 -> BitAnd(cond, COND_50_FPS) = 0
    [] f = FPS_60 -> BitAnd(cond, COND_60_FPS) = 0
    [] OTHER -> TRUE

\* the switch over imx290->fps
fps_reject(f, cond) ==
  CASE f = FPS_25 -> BitAnd(cond, COND_25_FPS) = 0
    [] f = FPS_30 -> BitAnd(cond, COND_30_FPS) = 0
    [] f = FPS_50 -> BitAnd(cond, COND_50_FPS) = 0
    [] f = FPS_60 -> BitAnd(cond, COND_60_FPS) = 0
    [] OTHER -> TRUE

\* the switch over imx290->nlanes
lanes_reject(n, cond) ==
  CASE n = 2 -> BitAnd(cond, COND_2_LANES) = 0
    [] n = 4 -> BitAnd(cond, COND_4_LANES) = 0
    [] OTHER -> TRUE

\* cfg is the part of struct imx290 the evaluator reads: [fps, nlanes, inck]
imx290_settings_match(cfg, cond) ==
  LET r1 == BitAnd(cond, COND_FPS_msk) # 0 /\ fps_reject(cfg.fps, cond)
      r2 == BitAnd(cond, COND_LANES_msk) # 0 /\ lanes_reject(cfg.nlanes, cond)
      r3 == BitAnd(cond, COND_INCK_msk) # 0 /\ inck_reject(cfg.inck, cond)
  IN ~(r1 \/ r2 \/ r3)

\* the runtime configurations: frame-rate class, lane count, input-clock class
Cfgs == [fps : {FPS_25, FPS_30, FPS_50, FPS_60}, nlanes : {2, 4}, inck : {INCK_37, INCK_74}]

\* imx290_settings_match tabulated once over the configurations and the masks
Matches == [c \in Cfgs, m \in 0..255 |-> imx290_settings_match(c, m)]

-----------------------------------------------------------------------------
(* Register tables *)

\* imx290_global_init_settings (imx290.c:158-178), entries <<reg, val, cond>>
imx290_global_init_settings ==
  <<
     <<12297, 1, 12>>, <<12297, 2, 3>>, <<13317, 16, 19>>, <<13317, 0, 28>>, <<13317, 32, 35>>,
     <<13317, 16, 44>>, <<12352, 0, 0>>, <<12353, 0, 0>>, <<12348, 0, 0>>, <<12349, 0, 0>>,
     <<12354, 156, 0>>, <<12355, 7, 0>>, <<12350, 73, 0>>, <<12351, 4, 0>>, <<12363, 10, 0>>
  >>

\* imx290_1080p_settings (imx290.c:180-305), entries <<reg, val, cond>>
imx290_1080p_settings ==
  <<
     <<12295, 0, 0>>, <<12316, 160, 1>>, <<12317, 20, 1>>, <<12316, 48, 2>>, <<12317, 17, 2>>,
     <<12316, 80, 4>>, <<12317, 10, 4>>, <<12316, 152, 8>>, <<12317, 8, 8>>, <<12312, 101, 0>>,
     <<12313, 4, 0>>, <<12314, 0, 0>>, <<12346, 12, 0>>, <<13332, 10, 0>>, <<13426, 128, 0>>,
     <<13427, 7, 0>>, <<13336, 56, 0>>, <<13337, 4, 0>>, <<12306, 100, 0>>, <<12307, 0, 0>>,
     <<12380, 24, 64>>, <<12381, 3, 64>>, <<12382, 32, 64>>, <<12383, 1, 64>>, <<12638, 26, 64>>,
     <<12644, 26, 64>>, <<13380, 32, 64>>, <<13381, 37, 64>>, <<13440, 73, 64>>, <<12380, 12, 128>>,
     <<12381, 3, 128>>, <<12382, 16, 128>>, <<12383, 1, 128>>, <<12638, 27, 128>>, <<12644, 27, 128>>,
     <<13380, 64, 128>>, <<13381, 74, 128>>, <<13440, 146, 128>>, <<13382, 87, 19>>, <<13383, 0, 19>>,
     <<13384, 55, 19>>, <<13385, 0, 19>>, <<13386, 31, 19>>, <<13387, 0, 19>>, <<13388, 31, 19>>,
     <<13389, 0, 19>>, <<13390, 31, 19>>, <<13391, 0, 19>>, <<13392, 119, 19>>, <<13393, 0, 19>>,
     <<13394, 31, 19>>, <<13395, 0, 19>>, <<13396, 23, 19>>, <<13397, 0, 19>>, <<13382, 119, 28>>,
     <<13383, 0, 28>>, <<13384, 103, 28>>, <<13385, 0, 28>>, <<13386, 71, 28>>, <<13387, 0, 28>>,
     <<13388, 55, 28>>, <<13389, 0, 28>>, <<13390, 63, 28>>, <<13391, 0, 28>>, <<13392, 255, 28>>,
     <<13393, 0, 28>>, <<13394, 63, 28>>, <<13395, 0, 28>>, <<13396, 55, 28>>, <<13397, 0, 28>>,
     <<13382, 71, 35>>, <<13383, 0, 35>>, <<13384, 31, 35>>, <<13385, 0, 35>>, <<13386, 23, 35>>,
     <<13387, 0, 35>>, <<13388, 15, 35>>, <<13389, 0, 35>>, <<13390, 23, 35>>, <<13391, 0, 35>>,
     <<13392, 71, 35>>, <<13393, 0, 35>>, <<13394, 15, 35>>, <<13395, 0, 35>>, <<13396, 15, 35>>,
     <<13397, 0, 35>>, <<13382, 87, 44>>, <<13383, 0, 44>>, <<13384, 55, 44>>, <<13385, 0, 44>>,
     <<13386, 31, 44>>, <<13387, 0, 44>>, <<13388, 31, 44>>, <<13389, 0, 44>>, <<13390, 31, 44>>,
     <<13391, 0, 44>>, <<13392, 119, 44>>, <<13393, 0, 44>>, <<13394, 31, 44>>, <<13395, 0, 44>>,
     <<13396, 23, 44>>, <<13397, 0, 44>>
  >>

\* imx290_720p_settings (imx290.c:307-431), entries <<reg, val, cond>>
imx290_720p_settings ==
  <<
     <<12295, 16, 0>>, <<12316, 240, 1>>, <<12317, 30, 1>>, <<12316, 200, 2>>, <<12317, 25, 2>>,
     <<12316, 120, 4>>, <<12317, 15, 4>>, <<12316, 228, 8>>, <<12317, 12, 8>>, <<12312, 238, 0>>,
     <<12313, 2, 0>>, <<12314, 0, 0>>, <<12346, 6, 0>>, <<13332, 4, 0>>, <<13426, 0, 0>>,
     <<13427, 5, 0>>, <<13336, 208, 0>>, <<13337, 2, 0>>, <<12306, 100, 0>>, <<12307, 0, 0>>,
     <<12380, 32, 64>>, <<12381, 0, 64>>, <<12382, 32, 64>>, <<12383, 1, 64>>, <<12638, 26, 64>>,
     <<12644, 26, 64>>, <<13380, 32, 64>>, <<13381, 37, 64>>, <<13440, 73, 64>>, <<12380, 16, 128>>,
     <<12381, 0, 128>>, <<12382, 16, 128>>, <<12383, 1, 128>>, <<12638, 27, 128>>, <<12644, 27, 128>>,
     <<13380, 64, 128>>, <<13381, 74, 128>>, <<13440, 146, 128>>, <<13382, 79, 19>>, <<13383, 0, 19>>,
     <<13384, 47, 19>>, <<13385, 0, 19>>, <<13386, 23, 19>>, <<13387, 0, 19>>, <<13388, 23, 19>>,
     <<13389, 0, 19>>, <<13390, 23, 19>>, <<13391, 0, 19>>, <<13392, 87, 19>>, <<13393, 0, 19>>,
     <<13394, 23, 19>>, <<13395, 0, 19>>, <<13396, 23, 19>>, <<13397, 0, 19>>, <<13382, 103, 28>>,
     <<13383, 0, 28>>, <<13384, 87, 28>>, <<13385, 0, 28>>, <<13386, 47, 28>>, <<13387, 0, 28>>,
     <<13388, 39, 28>>, <<13389, 0, 28>>, <<13390, 47, 28>>, <<13391, 0, 28>>, <<13392, 191, 28>>,
     <<13393, 0, 28>>, <<13394, 47, 28>>, <<13395, 0, 28>>, <<13396, 39, 28>>, <<13397, 0, 28>>,
     <<13382, 71, 35>>, <<13383, 0, 35>>, <<13384, 23, 35>>, <<13385, 0, 35>>, <<13386, 15, 35>>,
     <<13387, 0, 35>>, <<13388, 15, 35>>, <<13389, 0, 35>>, <<13390, 15, 35>>, <<13391, 0, 35>>,
     <<13392, 43, 35>>, <<13393, 0, 35>>, <<13394, 11, 35>>, <<13395, 0, 35>>, <<13396, 15, 35>>,
     <<13397, 0, 35>>, <<13382, 79, 44>>, <<13383, 0, 44>>, <<13384, 47, 44>>, <<13385, 0, 44>>,
     <<13386, 23, 44>>, <<13387, 0, 44>>, <<13388, 23, 44>>, <<13389, 0, 44>>, <<13390, 23, 44>>,
     <<13391, 0, 44>>, <<13392, 87, 44>>, <<13393, 0, 44>>, <<13394, 23, 44>>, <<13395, 0, 44>>,
     <<13396, 23, 44>>, <<13397, 0, 44>>
  >>

\* imx290_poweron_settings (imx290.c:433-445), entries <<reg, val, cond>>
imx290_poweron_settings ==
  <<
     <<12288, 1, 0>>, <<12289, 0, 0>>, <<12290, 1, 0>>, <<13319, 1, 16>>, <<13319, 3, 32>>,
     <<13379, 1, 16>>, <<13379, 3, 32>>
  >>

\* imx290_model_290_settings (imx290.c:448-490), entries <<reg, val, cond>>
imx290_model_290_settings ==
  <<
     <<12303, 0, 0>>, <<12304, 33, 0>>, <<12306, 100, 0>>, <<12310, 9, 0>>, <<12400, 2, 0>>,
     <<12401, 17, 0>>, <<12443, 16, 0>>, <<12444, 34, 0>>, <<12450, 2, 0>>, <<12454, 32, 0>>,
     <<12456, 32, 0>>, <<12458, 32, 0>>, <<12460, 32, 0>>, <<12464, 67, 0>>, <<12569, 158, 0>>,
     <<12572, 30, 0>>, <<12574, 8, 0>>, <<12584, 5, 0>>, <<12605, 131, 0>>, <<12624, 3, 0>>,
     <<12670, 0, 0>>, <<12984, 80, 0>>, <<12985, 16, 0>>, <<12986, 0, 0>>, <<12987, 4, 0>>,
     <<13000, 80, 0>>, <<13001, 16, 0>>, <<13002, 0, 0>>, <<13003, 4, 0>>, <<13100, 211, 0>>,
     <<13101, 16, 0>>, <<13102, 13, 0>>, <<13144, 6, 0>>, <<13145, 225, 0>>, <<13146, 17, 0>>,
     <<13152, 30, 0>>, <<13153, 97, 0>>, <<13154, 16, 0>>, <<13232, 80, 0>>, <<13234, 26, 0>>,
     <<13235, 4, 0>>
  >>

\* imx290_model_327_settings (imx290.c:493-499), entries <<reg, val, cond>>
imx290_model_327_settings ==
  <<
     <<12305, 10, 0>>, <<12446, 74, 0>>, <<12447, 74, 0>>, <<12584, 4, 0>>, <<12603, 65, 0>>
  >>

\* imx290_10bit_settings (imx290.c:501-511), entries <<reg, val, cond>>
imx290_10bit_settings ==
  <<
     <<12293, 0, 0>>, <<12358, 0, 0>>, <<12585, 29, 0>>, <<12668, 18, 0>>, <<12780, 55, 0>>,
     <<13377, 10, 0>>, <<13378, 10, 0>>, <<12298, 60, 0>>, <<12299, 0, 0>>
  >>

\* imx290_12bit_settings (imx290.c:513-523), entries <<reg, val, cond>>
imx290_12bit_settings ==
  <<
     <<12293, 1, 0>>, <<12358, 1, 0>>, <<12585, 0, 0>>, <<12668, 0, 0>>, <<12780, 14, 0>>,
     <<13377, 12, 0>>, <<13378, 12, 0>>, <<12298, 240, 0>>, <<12299, 0, 0>>
  >>

-----------------------------------------------------------------------------
(* Bus adapter and sequence applier *)

\* A bus (and platform) behaviour for one request: the fallible calls of the
\* request are numbered 1, 2, ... in the order they are issued; those whose
\* number is in fail return err, the others 0.
NoFail == [fail |-> {}, err |-> 0]
FailAt(k, e) == [fail |-> {k}, err |-> e]
Rc(bus, n) == IF n \in bus.fail THEN bus.err ELSE 0

\* events: <<kind, a, b, rc>>
EvWrite(addr, val, rc) == <<"w", addr, val, rc>>
EvSleep(us) == <<"sleep", us, 0, 0>>
EvRet(fn, rc) == <<fn, 0, 0, rc>>

\* imx290_write_reg as call number n of the request
imx290_write_reg(addr, val, bus, n) == EvWrite(addr, val, Rc(bus, n))

\* the loop with the settle delay on the failure path as well
imx290_write_entries_settle_always(todo, bus, base) ==
  LET w(k) == imx290_write_reg(todo[k][1], todo[k][2], bus, base + k)
      bad == {k \in 1..Len(todo) : w(k)[4] < 0}
      first == CHOOSE k \in bad : \A j \in bad : k <= j
  IN IF bad = {}
     THEN [io |-> [k \in 1..Len(todo) |-> w(k)] \o <<EvSleep(10000)>>,
           ret |-> 0, n |-> base + Len(todo)]
     ELSE [io |-> [k \in 1..first |-> w(k)] \o <<EvSleep(10000)>>,
           ret |-> w(first)[4], n |-> base + first]

\* the loop of imx290_set_register_array over todo, the entries it does not
\* skip, in table order: written as calls base+1, base+2, ... until one
\* fails; the settle delay follows a complete pass.  n is the number of the
\* last call issued.
imx290_write_entries(todo, bus, base) ==
  LET w(k) == imx290_write_reg(todo[k][1], todo[k][2], bus, base + k)
      bad == {k \in 1..Len(todo) : w(k)[4] < 0}
      first == CHOOSE k \in bad : \A j \in bad : k <= j
  IN IF bad = {}
     THEN [io |-> [k \in 1..Len(todo) |-> w(k)] \o <<EvSleep(10000)>>,
           ret |-> 0, n |-> base + Len(todo)]
     ELSE [io |-> [k \in 1..first |-> w(k)], ret |-> w(first)[4], n |-> base + first]

imx290_set_register_array(cfg, settings, bus, base) ==
  imx290_write_entries(SelectSeq(settings, LAMBDA s : Matches[cfg, s[3]]), bus, base)

\* number of writes a successful application issues
NWrites(cfg, settings) ==
  Len(SelectSeq(settings, LAMBDA s : Matches[cfg, s[3]]))

\* the bytes of the value sent most significant first
imx290_write_buffered_reg_msb_first(address_low, nr_regs, value, bus, base) ==
  LET h1 == imx290_write_reg(IMX290_REGHOLD, 1, bus, base + 1)
      RECURSIVE loop(_)
      loop(i) ==
        IF i >= nr_regs
        THEN LET h0 == imx290_write_reg(IMX290_REGHOLD, 0, bus, base + nr_regs + 2)
             IN [io |-> <<h0>>, ret |-> h0[4], n |-> base + nr_regs + 2]
        ELSE LET w == imx290_write_reg((address_low + i) % 65536,
                                       (value \div (256 ^ (nr_regs - 1 - i))) % 256,
                                       bus, base + 2 + i)
             IN IF w[4] # 0
                THEN [io |-> <<w>>, ret |-> w[4], n |-> base + 2 + i]
                ELSE LET r == loop(i + 1)
                     IN [io |-> <<w>> \o r.io, ret |-> r.ret, n |-> r.n]
  IN IF h1[4] # 0
     THEN [io |-> <<h1>>, ret |-> h1[4], n |-> base + 1]
     ELSE LET r == loop(0) IN [io |-> <<h1>> \o r.io, ret |-> r.ret, n |-> r.n]

imx290_write_buffered_reg(address_low, nr_regs, value, bus, base) ==
  LET h1 == imx290_write_reg(IMX290_REGHOLD, 1, bus, base + 1)
      RECURSIVE loop(_)
      loop(i) ==
        IF i >= nr_regs
        THEN LET h0 == imx290_write_reg(IMX290_REGHOLD, 0, bus, base + nr_regs + 2)
             IN [io |-> <<h0>>, ret |-> h0[4], n |-> base + nr_regs + 2]
        ELSE LET w == imx290_write_reg((address_low + i) % 65536, (value \div (256 ^ i)) % 256,
                                       bus, base + 2 + i)
             IN IF w[4] # 0
                THEN [io |-> <<w>>, ret |-> w[4], n |-> base + 2 + i]
                ELSE LET r == loop(i + 1)
                     IN [io |-> <<w>> \o r.io, ret |-> r.ret, n |-> r.n]
  IN IF h1[4] # 0
     THEN [io |-> <<h1>>, ret |-> h1[4], n |-> base + 1]
     ELSE LET r == loop(0) IN [io |-> <<h1>> \o r.io, ret |-> r.ret, n |-> r.n]

imx290_set_gain(value, bus, base) ==
  imx290_write_buffered_reg(IMX290_GAIN, 1, value, bus, base)

-----------------------------------------------------------------------------
(* Mode catalog, link frequency, pixel rate *)

FREQ_INDEX_1080P == 0
FREQ_INDEX_720P == 1

imx290_link_freq_2lanes_37mhz == <<445500000, 297000000>>
imx290_link_freq_4lanes_37mhz == <<222750000, 148500000>>
imx290_link_freq_2lanes_74mhz == <<891000000, 594000000>>
imx290_link_freq_4lanes_74mhz == <<445500000, 297000000>>

imx290_link_freqs_ptr(n, k) ==
  CASE n # 4 /\ k # INCK_74 -> imx290_link_freq_2lanes_37mhz
    [] n # 4 /\ k = INCK_74 -> imx290_link_freq_2lanes_74mhz
    [] n = 4 /\ k # INCK_74 -> imx290_link_freq_4lanes_37mhz
    [] n = 4 /\ k = INCK_74 -> imx290_link_freq_4lanes_74mhz

imx290_modes_2lanes ==
  << [width |-> 1920, height |-> 1080, link_freq_index |-> FREQ_INDEX_1080P,
      data |-> imx290_1080p_settings],
     [width |-> 1280, height |-> 720, link_freq_index |-> FREQ_INDEX_720P,
      data |-> imx290_720p_settings] >>

imx290_modes_4lanes ==
  << [width |-> 1920, height |-> 1080, link_freq_index |-> FREQ_INDEX_1080P,
      data |-> imx290_1080p_settings],
     [width |-> 1280, height |-> 720, link_freq_index |-> FREQ_INDEX_720P,
      data |-> imx290_720p_settings] >>

imx290_modes_ptr(n) == IF n = 2 THEN imx290_modes_2lanes ELSE imx290_modes_4lanes

\* pixel formats: <<code, bpp>>
MEDIA_BUS_FMT_SRGGB10_1X10 == 12303   \* 0x300f
MEDIA_BUS_FMT_SRGGB12_1X12 == 12306   \* 0x3012
imx290_formats == << <<MEDIA_BUS_FMT_SRGGB10_1X10, 10>>, <<MEDIA_BUS_FMT_SRGGB12_1X12, 12>> >>

Abs(x) == IF x < 0 THEN 0 - x ELSE x

\* v4l2_find_nearest_size: index of the first entry with the smallest
\* |width - w| + |height - h|
v4l2_find_nearest_size(modes, w, h) ==
  LET err(i) == Abs(modes[i].width - w) + Abs(modes[i].height - h)
  IN CHOOSE i \in 1..Len(modes) :
       /\ \A j \in 1..Len(modes) : err(i) <= err(j)
       /\ \A j \in 1..(i - 1) : err(j) > err(i)

\* current_mode is kept as the index into imx290_modes_ptr
\* the index of the other mode
imx290_get_link_freq_index_other(n, m) == 1 - imx290_modes_ptr(n)[m].link_freq_index

imx290_get_link_freq_index(n, m) == imx290_modes_ptr(n)[m].link_freq_index

imx290_get_link_freq(n, k, m) ==
  imx290_link_freqs_ptr(n, k)[imx290_get_link_freq_index(n, m) + 1]

\* the rate of a single-data-rate link
imx290_calc_pixel_rate_sdr(n, k, m, b) ==
  (imx290_get_link_freq(n, k, m) \div b) * n + ((imx290_get_link_freq(n, k, m) % b) * n) \div b

\* link_freq * 2 * nlanes is below 2^33, so the u64 product does not wrap;
\* the quotient is computed from link_freq = b * q + r to stay within the
\* 32-bit integers: (b*q + r) * 2n \div b = q * 2n + (r * 2n) \div b
imx290_calc_pixel_rate(n, k, m, b) ==
  LET link_freq == imx290_get_link_freq(n, k, m)
  IN (link_freq \div b) * (2 * n) + ((link_freq % b) * (2 * n)) \div b

imx290_get_winmode(n, m) ==
  CASE imx290_modes_ptr(n)[m].height = 1080 -> 0
    [] imx290_modes_ptr(n)[m].height = 720 -> 16
    [] OTHER -> 0

-----------------------------------------------------------------------------
(* Control plane *)

\* the part of struct imx290 a control update reads
\*   d = [cfg, bpp, vmax, reg_3007]
EXPOSURE_MAX == 10000

\* the scaling without the lower clamp
exposure_lines_unclamped(vm, value) == (value * (vm - 2)) \div EXPOSURE_MAX

\* val after "val *= vmax - 2; val /= maximum; if (val == 0) val = 1"
\* (unsigned int: value <= 10000 and vmax <= 1125, nothing wraps)
exposure_lines(vm, value) ==
  IF (value * (vm - 2)) \div EXPOSURE_MAX = 0 THEN 1
  ELSE (value * (vm - 2)) \div EXPOSURE_MAX

\* the update without the test for an unset vmax
imx290_set_exposure_unguarded(d, value, bus, base) ==
  LET val == d.vmax - 2 - exposure_lines(d.vmax, value)
      regs == << <<IMX290_REGHOLD, 1, 0>>,
                 <<12320, val % 256, 0>>,
                 <<12321, (val \div 256) % 256, 0>>,
                 <<12322, (val \div 65536) % 2, 0>>,
                 <<IMX290_REGHOLD, 0, 0>> >>
  IN imx290_set_register_array(d.cfg, regs, bus, base)

imx290_set_exposure(d, value, bus, base) ==
  IF d.vmax = 0
  THEN [io |-> <<>>, ret |-> 0, n |-> base]
  ELSE LET val == d.vmax - 2 - exposure_lines(d.vmax, value)
           regs == << <<IMX290_REGHOLD, 1, 0>>,
                      <<12320, val % 256, 0>>,
                      <<12321, (val \div 256) % 256, 0>>,
                      <<12322, (val \div 65536) % 2, 0>>,
                      <<IMX290_REGHOLD, 0, 0>> >>
       IN imx290_set_register_array(d.cfg, regs, bus, base)

\* the flip byte built from the mask alone
imx290_set_flip_overwrite(d, msk, value, bus, base) ==
  LET r3007 == IF value # 0 THEN msk ELSE 0
      regs == << <<IMX290_REGHOLD, 1, 0>>, <<12295, r3007, 0>>, <<IMX290_REGHOLD, 0, 0>> >>
      a == imx290_set_register_array(d.cfg, regs, bus, base)
  IN [io |-> a.io, ret |-> a.ret, n |-> a.n,
      reg_3007 |-> IF a.ret < 0 THEN d.reg_3007 ELSE r3007]

\* the cache written before the result of the writes is known
imx290_set_flip_commit_first(d, msk, value, bus, base) ==
  LET cur == Bit(d.reg_3007, IF msk = 2 THEN 1 ELSE 0)
      r3007 == IF value # 0
               THEN d.reg_3007 + (IF cur = 1 THEN 0 ELSE msk)
               ELSE d.reg_3007 - (IF cur = 1 THEN msk ELSE 0)
      regs == << <<IMX290_REGHOLD, 1, 0>>, <<12295, r3007, 0>>, <<IMX290_REGHOLD, 0, 0>> >>
      a == imx290_set_register_array(d.cfg, regs, bus, base)
  IN [io |-> a.io, ret |-> a.ret, n |-> a.n, reg_3007 |-> r3007]

\* imx290_set_flip building the byte from the flip bits alone
imx290_set_flip_drop_winmode(d, msk, value, bus, base) ==
  LET cur == Bit(d.reg_3007, IF msk = 2 THEN 1 ELSE 0)
      r3007 == IF value # 0
               THEN (d.reg_3007 % 4) + (IF cur = 1 THEN 0 ELSE msk)
               ELSE (d.reg_3007 % 4) - (IF cur = 1 THEN msk ELSE 0)
      regs == << <<IMX290_REGHOLD, 1, 0>>, <<12295, r3007, 0>>, <<IMX290_REGHOLD, 0, 0>> >>
      a == imx290_set_register_array(d.cfg, regs, bus, base)
  IN [io |-> a.io, ret |-> a.ret, n |-> a.n,
      reg_3007 |-> IF a.ret < 0 THEN d.reg_3007 ELSE r3007]

\* msk is BIT(1) for HFLIP and BIT(0) for VFLIP; r.reg_3007 is the cache on return
imx290_set_flip(d, msk, value, bus, base) ==
  LET cur == Bit(d.reg_3007, IF msk = 2 THEN 1 ELSE 0)
      r3007 == IF value # 0
               THEN d.reg_3007 + (IF cur = 1 THEN 0 ELSE msk)
               ELSE d.reg_3007 - (IF cur = 1 THEN msk ELSE 0)
      regs == << <<IMX290_REGHOLD, 1, 0>>, <<12295, r3007, 0>>, <<IMX290_REGHOLD, 0, 0>> >>
      a == imx290_set_register_array(d.cfg, regs, bus, base)
  IN [io |-> a.io, ret |-> a.ret, n |-> a.n,
      reg_3007 |-> IF a.ret < 0 THEN d.reg_3007 ELSE r3007]

imx290_set_test_pattern(d, value, bus, base) ==
  IF value # 0
  THEN [io |-> << imx290_write_reg(IMX290_BLKLEVEL_LOW, 0, bus, base + 1),
                  imx290_write_reg(IMX290_BLKLEVEL_HIGH, 0, bus, base + 2),
                  EvSleep(10000),
                  imx290_write_reg(IMX290_PGCTRL, (1 + 2 + value * 16) % 256, bus, base + 3) >>,
        ret |-> 0, n |-> base + 3]
  ELSE [io |-> << imx290_write_reg(IMX290_PGCTRL, 0, bus, base + 1),
                  EvSleep(10000),
                  imx290_write_reg(IMX290_BLKLEVEL_LOW, IF d.bpp = 10 THEN 60 ELSE 240,
                                   bus, base + 2),
                  imx290_write_reg(IMX290_BLKLEVEL_HIGH, 0, bus, base + 3) >>,
        ret |-> 0, n |-> base + 3]

\* the extra bit set for HCG instead of LCG
imx290_set_cg_switch_hcg_bit(d, value, bus, base) ==
  LET v == IF value = 0 THEN 16 ELSE 0
      regs == << <<IMX290_REGHOLD, 1, 0>>,
                 <<12297, 1 + v, COND_50_60_FPS>>,
                 <<12297, 2 + v, COND_25_30_FPS>>,
                 <<IMX290_REGHOLD, 0, 0>> >>
  IN imx290_set_register_array(d.cfg, regs, bus, base)

imx290_set_cg_switch(d, value, bus, base) ==
  LET v == IF value = 0 THEN 0 ELSE 16
      regs == << <<IMX290_REGHOLD, 1, 0>>,
                 <<12297, 1 + v, COND_50_60_FPS>>,
                 <<12297, 2 + v, COND_25_30_FPS>>,
                 <<IMX290_REGHOLD, 0, 0>> >>
  IN imx290_set_register_array(d.cfg, regs, bus, base)

\* imx290_set_ctrl past the pm_runtime_get_if_in_use() test
CtrlIds == <<"cg_switch", "hflip", "vflip", "test_pattern", "gain", "exposure">>

imx290_set_ctrl(d, id, value, bus, base) ==
  LET keep(r) == [io |-> r.io, ret |-> r.ret, n |-> r.n, reg_3007 |-> d.reg_3007]
  IN CASE id = "gain" -> keep(imx290_set_gain(value, bus, base))
       [] id = "test_pattern" -> keep(imx290_set_test_pattern(d, value, bus, base))
       [] id = "exposure" -> keep(imx290_set_exposure(d, value, bus, base))
       [] id = "vflip" -> imx290_set_flip(d, 1, value, bus, base)
       [] id = "hflip" -> imx290_set_flip(d, 2, value, bus, base)
       [] id = "cg_switch" -> keep(imx290_set_cg_switch(d, value, bus, base))
       [] id \in {"link_freq", "pixel_rate"} ->
            [io |-> <<>>, ret |-> 0, n |-> base, reg_3007 |-> d.reg_3007]
       [] OTHER -> [io |-> <<>>, ret |-> EINVAL, n |-> base, reg_3007 |-> d.reg_3007]

\* v4l2_ctrl_handler_setup: s_ctrl of every writable control with its held
\* value, in the order the controls were added, up to the first error
v4l2_ctrl_handler_setup(d, c, bus, base) ==
  LET RECURSIVE loop(_, _, _)
      join(r, s) == [io |-> r.io \o s.io, ret |-> s.ret, n |-> s.n, reg_3007 |-> s.reg_3007]
      next(i, dd, r) ==
        IF r.ret # 0 THEN r
        ELSE join(r, loop(i + 1, [dd EXCEPT !.reg_3007 = r.reg_3007], r.n))
      loop(i, dd, n) ==
        IF i > Len(CtrlIds)
        THEN [io |-> <<>>, ret |-> 0, n |-> n, reg_3007 |-> dd.reg_3007]
        ELSE next(i, dd, imx290_set_ctrl(dd, CtrlIds[i], c[CtrlIds[i]], bus, n))
  IN loop(1, d, base)
-----------------------------------------------------------------------------
(* Power callbacks *)

EvClk(on, rc) == <<IF on = 1 THEN "clk_prepare_enable" ELSE "clk_disable_unprepare", 0, 0, rc>>
EvSupplies(on, rc) == <<IF on = 1 THEN "regulator_bulk_enable" ELSE "regulator_bulk_disable", 0, 0, rc>>
EvReset(level) == <<"gpiod_set_value", level, 0, 0>>

imx290_model_settings(ty) ==
  IF ty = IMX290_TYPE_290 THEN imx290_model_290_settings ELSE imx290_model_327_settings

\* imx290_power_on writing the table of the variant before the power-on
\* table, with reset still asserted
power_on_steps_variant_first(c, s, a, b) ==
  LET up == <<EvClk(1, 0), EvSupplies(1, 0), EvSleep(1)>>
      rel == <<EvReset(0), EvSleep(30000)>>
      err_clk == <<EvClk(0, 0)>>
      err_regulator == <<EvReset(1), EvSupplies(0, 0)>> \o err_clk
  IN IF c # 0 THEN [io |-> <<EvClk(1, c)>>, ret |-> c]
     ELSE IF s # 0 THEN [io |-> <<EvClk(1, 0), EvSupplies(1, s)>> \o err_clk, ret |-> s]
     ELSE IF b.ret < 0 THEN [io |-> up \o b.io \o err_regulator, ret |-> b.ret]
     ELSE IF a.ret < 0 THEN [io |-> up \o b.io \o rel \o a.io \o err_regulator, ret |-> a.ret]
     ELSE [io |-> up \o b.io \o rel \o a.io, ret |-> 0]

\* imx290_power_on returning from a failing table write without unwinding
power_on_steps_no_unwind(c, s, a, b) ==
  LET up == <<EvClk(1, 0), EvSupplies(1, 0), EvSleep(1), EvReset(0), EvSleep(30000)>>
      err_clk == <<EvClk(0, 0)>>
  IN IF c # 0 THEN [io |-> <<EvClk(1, c)>>, ret |-> c]
     ELSE IF s # 0 THEN [io |-> <<EvClk(1, 0), EvSupplies(1, s)>> \o err_clk, ret |-> s]
     ELSE IF a.ret < 0 THEN [io |-> up \o a.io, ret |-> a.ret]
     ELSE IF b.ret < 0 THEN [io |-> up \o a.io \o b.io, ret |-> b.ret]
     ELSE [io |-> up \o a.io \o b.io, ret |-> 0]

\* imx290_power_on leaving the clock enabled when the supplies fail
power_on_steps_no_err_clk(c, s, a, b) ==
  LET up == <<EvClk(1, 0), EvSupplies(1, 0), EvSleep(1), EvReset(0), EvSleep(30000)>>
      err_clk == <<EvClk(0, 0)>>
      err_regulator == <<EvReset(1), EvSupplies(0, 0)>> \o err_clk
  IN IF c # 0 THEN [io |-> <<EvClk(1, c)>>, ret |-> c]
     ELSE IF s # 0 THEN [io |-> <<EvClk(1, 0), EvSupplies(1, s)>>, ret |-> s]
     ELSE IF a.ret < 0 THEN [io |-> up \o a.io \o err_regulator, ret |-> a.ret]
     ELSE IF b.ret < 0 THEN [io |-> up \o a.io \o b.io \o err_regulator, ret |-> b.ret]
     ELSE [io |-> up \o a.io \o b.io, ret |-> 0]

\* the body of imx290_power_on: c and s are the results of clk_prepare_enable
\* and regulator_bulk_enable, a and b those of applying the power-on table
\* and the table of the variant
power_on_steps(c, s, a, b) ==
  LET up == <<EvClk(1, 0), EvSupplies(1, 0), EvSleep(1), EvReset(0), EvSleep(30000)>>
      err_clk == <<EvClk(0, 0)>>
      err_regulator == <<EvReset(1), EvSupplies(0, 0)>> \o err_clk
  IN IF c # 0 THEN [io |-> <<EvClk(1, c)>>, ret |-> c]
     ELSE IF s # 0 THEN [io |-> <<EvClk(1, 0), EvSupplies(1, s)>> \o err_clk, ret |-> s]
     ELSE IF a.ret < 0 THEN [io |-> up \o a.io \o err_regulator, ret |-> a.ret]
     ELSE IF b.ret < 0 THEN [io |-> up \o a.io \o b.io \o err_regulator, ret |-> b.ret]
     ELSE [io |-> up \o a.io \o b.io, ret |-> 0]

\* calls 1 and 2 of the request are clk_prepare_enable and
\* regulator_bulk_enable, the bus writes follow: those of the power-on table,
\* then those of the table of the variant
imx290_power_on(cfg, ty, bus) ==
  power_on_steps(Rc(bus, 1), Rc(bus, 2),
                 imx290_set_register_array(cfg, imx290_poweron_settings, bus, 2),
                 imx290_set_register_array(cfg, imx290_model_settings(ty), bus,
                                           2 + NWrites(cfg, imx290_poweron_settings)))

imx290_power_off ==
  [io |-> <<EvClk(0, 0), EvReset(1), EvSupplies(0, 0)>>, ret |-> 0]

\* number of fallible calls of a power-on that succeeds
NPowerOn(cfg, ty) ==
  2 + NWrites(cfg, imx290_poweron_settings) + NWrites(cfg, imx290_model_settings(ty))

\* Effect of the events on the platform resources r = [xclk, supplies, rst]:
\* enable counts of the clock and of the supply rails, level of the reset line
Count(evs, kind, ok) ==
  Cardinality({i \in 1..Len(evs) : evs[i][1] = kind /\ (ok => evs[i][4] = 0)})

ResAfter(r, evs) ==
  LET sets == {i \in 1..Len(evs) : evs[i][1] = "gpiod_set_value"}
      last == CHOOSE i \in sets : \A j \in sets : j <= i
  IN [xclk |-> r.xclk + Count(evs, "clk_prepare_enable", TRUE)
                 - Count(evs, "clk_disable_unprepare", FALSE),
      supplies |-> r.supplies + Count(evs, "regulator_bulk_enable", TRUE)
                     - Count(evs, "regulator_bulk_disable", FALSE),
      rst |-> IF sets = {} THEN r.rst ELSE evs[last][2]]

-----------------------------------------------------------------------------
(* Stream on / off *)

imx290_stop_streaming(bus) ==
  LET w1 == imx290_write_reg(IMX290_STANDBY, 1, bus, 1)
      w2 == imx290_write_reg(IMX290_XMSTA, 1, bus, 2)
  IN IF w1[4] < 0 THEN [io |-> <<w1>>, ret |-> w1[4]]
     ELSE [io |-> <<w1, EvSleep(30000), w2>>, ret |-> w2[4]]

imx290_write_current_format(cfg, fmt_code, bus) ==
  CASE fmt_code = MEDIA_BUS_FMT_SRGGB10_1X10 ->
         imx290_set_register_array(cfg, imx290_10bit_settings, bus, 0)
    [] fmt_code = MEDIA_BUS_FMT_SRGGB12_1X12 ->
         imx290_set_register_array(cfg, imx290_12bit_settings, bus, 0)
    [] OTHER -> [io |-> <<>>, ret |-> 0 - 22, n |-> 0]

\* the last two writes of imx290_start_streaming
imx290_start_standby(bus) ==
  LET w1 == imx290_write_reg(IMX290_STANDBY, 0, bus, 1)
      w2 == imx290_write_reg(IMX290_XMSTA, 0, bus, 2)
  IN IF w1[4] < 0 THEN [io |-> <<w1>>, ret |-> w1[4]]
     ELSE [io |-> <<w1, EvSleep(30000), w2>>, ret |-> w2[4]]

-----------------------------------------------------------------------------
(* The driver as a state machine *)

MaxUsage == 2          \* cap on the runtime-PM usage count

Cfg == [fps |-> fps, nlanes |-> nlanes, inck |-> inck]
D == [cfg |-> Cfg, bpp |-> bpp, vmax |-> vmax, reg_3007 |-> reg_3007]
Res == [xclk |-> xclk, supplies |-> supplies, rst |-> rst]

\* bus behaviours of a request with n fallible calls: none fails, or one does
Buses(n) == {NoFail} \cup {FailAt(k, e) : k \in 1..n, e \in BusErrs}

\* the same with one error code
BusesEIO(n) == {NoFail} \cup {FailAt(k, EIO) : k \in 1..n}

\* none fails, or the first or the last call does
EndBuses(n) == {NoFail} \cup {FailAt(k, EIO) : k \in {1, n} \cap 1..n}

\* the caller has taken the result of the request before
Collected == req[1] = "none"

Effects(evs) ==
  LET r == ResAfter(Res, evs)
  IN /\ xclk' = r.xclk
     /\ supplies' = r.supplies
     /\ rst' = r.rst

\* values of the controls at registration (imx290_ctrls, imx290_init_ctrls)
CtrlDefaults(n, k) ==
  [cg_switch |-> 0, hflip |-> 0, vflip |-> 0, test_pattern |-> 0, gain |-> 0,
   exposure |-> 10000, link_freq |-> 0,
   pixel_rate |-> imx290_calc_pixel_rate(n, k, 1, 10)]

\* struct imx290 and its environment when imx290_probe has returned 0
ProbeDone(n, k, ty) ==
  /\ nlanes = n
  /\ inck = k
  /\ type = ty
  /\ fps = IF k = INCK_37 THEN FPS_30 ELSE FPS_60
  /\ current_mode = v4l2_find_nearest_size(imx290_modes_ptr(n), 1920, 1080)
  /\ code = imx290_formats[1][1]
  /\ bpp = imx290_formats[1][2]
  /\ reg_3007 = 0
  /\ vmax = 0
  /\ ctrl = CtrlDefaults(n, k)
  /\ usage = 0
  /\ powered = FALSE
  /\ xclk = 0
  /\ supplies = 0
  /\ rst = 1
  /\ pc = "idle"
  /\ streaming = FALSE
  /\ io = <<>>
  /\ req = <<"none", 0>>

\* the devices constructed: <<lanes, clock class, variant>>
Boards == {<<2, INCK_37, IMX290_TYPE_290>>, <<4, INCK_74, IMX290_TYPE_327>>}

Init ==
  /\ \E b \in Boards : ProbeDone(b[1], b[2], b[3])
  /\ t_in = [fn |-> "none"]
  /\ t_out = <<>>

\* runtime-PM calls as events: usage count before and after, return value
EvPm(fn, before, after, rc) == <<fn, before, after, rc>>

\* pm_runtime_get_sync: takes a reference; the resume callback
\* (imx290_power_on) runs when the device is suspended.  Returns 1 when the
\* device was active already, 0 when it was resumed, the error otherwise.
pm_runtime_get_sync(bus) ==
  IF powered
  THEN [io |-> <<EvPm("pm_runtime_get_sync", usage, usage + 1, 1)>>, ret |-> 1]
  ELSE LET r == imx290_power_on(Cfg, type, bus)
       IN [io |-> r.io \o <<EvRet("imx290_power_on", r.ret),
                            EvPm("pm_runtime_get_sync", usage, usage + 1, r.ret)>>,
           ret |-> r.ret]

\* the reference a stream request holds from pm_runtime_get_sync to its put
StreamRef == IF streaming \/ pc # "idle" THEN 1 ELSE 0

\* all: a failure at every call of the power-on is tried, not only at its ends
s_power_on(all) ==
  /\ pc = "idle"
  /\ Collected
  /\ usage < MaxUsage
  /\ \E bus \in (IF all THEN Buses(IF powered THEN 0 ELSE NPowerOn(Cfg, type))
                  ELSE EndBuses(IF powered THEN 0 ELSE NPowerOn(Cfg, type))) :
       LET r == pm_runtime_get_sync(bus)
       IN /\ io' = r.io \o <<EvRet("imx290_s_power", 0)>>
          /\ powered' = (r.ret >= 0)
          /\ Effects(r.io)
  /\ usage' = usage + 1
  /\ req' = <<"s_power_on", 0>>
  /\ UNCHANGED <<nlanes, inck, type, fps, current_mode, code, bpp, reg_3007, vmax, ctrl,
                 pc, streaming, t_in, t_out>>

imx290_s_power_on == s_power_on(FALSE)

imx290_s_power_off ==
  /\ pc = "idle"
  /\ Collected
  /\ usage > StreamRef
  /\ usage' = usage - 1
  /\ io' = <<EvPm("pm_runtime_put_noidle", usage, usage - 1, 0),
             <<"pm_schedule_suspend", 2000, 0, 0>>, EvRet("imx290_s_power", 0)>>
  /\ req' = <<"s_power_off", 0>>
  /\ UNCHANGED <<nlanes, inck, type, fps, current_mode, code, bpp, reg_3007, vmax, ctrl,
                 powered, xclk, supplies, rst, pc, streaming, t_in, t_out>>

\* runtime PM suspends the device once nobody uses it
RuntimeSuspend ==
  /\ powered
  /\ usage = 0
  /\ LET r == imx290_power_off
     IN /\ io' = io \o r.io \o <<EvRet("imx290_power_off", r.ret)>>
        /\ Effects(r.io)
  /\ powered' = FALSE
  /\ UNCHANGED <<nlanes, inck, type, fps, current_mode, code, bpp, reg_3007, vmax, ctrl,
                 usage, pc, streaming, req, t_in, t_out>>

\* imx290_set_stream(enable = 1) going on to imx290_start_streaming whatever
\* pm_runtime_get_sync returned
SetStreamOn_unchecked ==
  /\ pc = "idle"
  /\ Collected
  /\ ~streaming
  /\ usage < MaxUsage
  /\ \E bus \in EndBuses(IF powered THEN 0 ELSE NPowerOn(Cfg, type)) :
       LET r == pm_runtime_get_sync(bus)
       IN /\ Effects(r.io)
          /\ powered' = (r.ret >= 0)
          /\ io' = r.io
          /\ usage' = usage + 1
          /\ req' = <<"stream_on_pending", 0>>
          /\ pc' = "init"
  /\ UNCHANGED <<nlanes, inck, type, fps, current_mode, code, bpp, reg_3007, vmax, ctrl,
                 streaming, t_in, t_out>>

\* imx290_set_stream(enable = 1) keeping the reference of a failed power-up
SetStreamOn_keeps_ref ==
  /\ pc = "idle"
  /\ Collected
  /\ ~streaming
  /\ usage < MaxUsage
  /\ \E bus \in EndBuses(IF powered THEN 0 ELSE NPowerOn(Cfg, type)) :
       LET r == pm_runtime_get_sync(bus)
       IN /\ Effects(r.io)
          /\ powered' = (r.ret >= 0)
          /\ IF r.ret < 0
             THEN /\ io' = r.io \o <<EvRet("imx290_set_stream", r.ret)>>
                  /\ usage' = usage + 1
                  /\ req' = <<"stream_on", r.ret>>
                  /\ pc' = "idle"
             ELSE /\ io' = r.io
                  /\ usage' = usage + 1
                  /\ req' = <<"stream_on_pending", 0>>
                  /\ pc' = "init"
  /\ UNCHANGED <<nlanes, inck, type, fps, current_mode, code, bpp, reg_3007, vmax, ctrl,
                 streaming, t_in, t_out>>

\* imx290_set_stream(enable = 1) up to the call of imx290_start_streaming
SetStreamOn ==
  /\ pc = "idle"
  /\ Collected
  /\ ~streaming
  /\ usage < MaxUsage
  /\ \E bus \in EndBuses(IF powered THEN 0 ELSE NPowerOn(Cfg, type)) :
       LET r == pm_runtime_get_sync(bus)
       IN /\ Effects(r.io)
          /\ powered' = (r.ret >= 0)
          /\ IF r.ret < 0
             THEN /\ io' = r.io \o <<EvPm("pm_runtime_put_noidle", usage + 1, usage, 0),
                                      EvRet("imx290_set_stream", r.ret)>>
                  /\ usage' = usage
                  /\ req' = <<"stream_on", r.ret>>
                  /\ pc' = "idle"
             ELSE /\ io' = r.io
                  /\ usage' = usage + 1
                  /\ req' = <<"stream_on_pending", 0>>
                  /\ pc' = "init"
  /\ UNCHANGED <<nlanes, inck, type, fps, current_mode, code, bpp, reg_3007, vmax, ctrl,
                 streaming, t_in, t_out>>

\* a step of imx290_start_streaming whose result is not looked at
StartStep_unchecked(evs, marker, rc, next) ==
  /\ Effects(evs)
  /\ io' = io \o evs \o <<EvRet(marker, rc)>> \o
           (IF next = "idle"
            THEN <<EvRet("imx290_start_streaming", 0), EvRet("imx290_set_stream", 0)>>
            ELSE <<>>)
  /\ IF next = "idle"
     THEN /\ req' = <<"stream_on", 0>>
          /\ streaming' = TRUE
     ELSE UNCHANGED <<req, streaming>>
  /\ usage' = usage
  /\ pc' = next
  /\ UNCHANGED <<nlanes, inck, type, fps, current_mode, code, bpp, ctrl, powered,
                 t_in, t_out>>

\* a failing step after which imx290_set_stream keeps its power reference
StartStep_no_put(evs, marker, rc, next) ==
  /\ Effects(evs)
  /\ IF rc # 0
     THEN /\ io' = io \o evs \o <<EvRet(marker, rc), EvRet("imx290_start_streaming", rc),
                                  EvRet("imx290_set_stream", rc)>>
          /\ usage' = usage
          /\ req' = <<"stream_on", rc>>
          /\ pc' = "idle"
          /\ streaming' = FALSE
     ELSE /\ io' = io \o evs \o <<EvRet(marker, 0)>> \o
                  (IF next = "idle"
                   THEN <<EvRet("imx290_start_streaming", 0), EvRet("imx290_set_stream", 0)>>
                   ELSE <<>>)
          /\ IF next = "idle"
             THEN /\ req' = <<"stream_on", 0>>
                  /\ streaming' = TRUE
             ELSE UNCHANGED <<req, streaming>>
          /\ usage' = usage
          /\ pc' = next
  /\ UNCHANGED <<nlanes, inck, type, fps, current_mode, code, bpp, ctrl, powered,
                 t_in, t_out>>

\* a step of imx290_start_streaming returned rc: the events evs were issued,
\* then either the next step follows or imx290_set_stream returns the error
StartStep(evs, marker, rc, next) ==
  /\ Effects(evs)
  /\ IF rc # 0
     THEN /\ io' = io \o evs \o <<EvRet(marker, rc), EvRet("imx290_start_streaming", rc),
                                  EvPm("pm_runtime_put", usage, usage - 1, 0),
                                  EvRet("imx290_set_stream", rc)>>
          /\ usage' = usage - 1
          /\ req' = <<"stream_on", rc>>
          /\ pc' = "idle"
          /\ streaming' = FALSE
     ELSE /\ io' = io \o evs \o <<EvRet(marker, 0)>> \o
                  (IF next = "idle"
                   THEN <<EvRet("imx290_start_streaming", 0), EvRet("imx290_set_stream", 0)>>
                   ELSE <<>>)
          /\ IF next = "idle"
             THEN /\ req' = <<"stream_on", 0>>
                  /\ streaming' = TRUE
             ELSE UNCHANGED <<req, streaming>>
          /\ usage' = usage
          /\ pc' = next
  /\ UNCHANGED <<nlanes, inck, type, fps, current_mode, code, bpp, ctrl, powered,
                 t_in, t_out>>

StartInit ==
  /\ pc = "init"
  /\ \E bus \in EndBuses(NWrites(Cfg, imx290_global_init_settings)) :
       LET r == imx290_set_register_array(Cfg, imx290_global_init_settings, bus, 0)
       IN StartStep(r.io, "global_init", r.ret, "format")
  /\ UNCHANGED <<reg_3007, vmax>>

StartFormat ==
  /\ pc = "format"
  /\ \E bus \in EndBuses(9) :
       LET r == imx290_write_current_format(Cfg, code, bus)
       IN StartStep(r.io, "write_current_format", r.ret, "mode")
  /\ UNCHANGED <<reg_3007, vmax>>

StartMode ==
  /\ pc = "mode"
  /\ LET data == imx290_modes_ptr(nlanes)[current_mode].data
     IN \E bus \in EndBuses(NWrites(Cfg, data)) :
          LET r == imx290_set_register_array(Cfg, data, bus, 0)
          IN StartStep(r.io, "current_mode", r.ret, "locked")
  /\ UNCHANGED <<reg_3007, vmax>>

\* the frame length of 1080p whatever the mode
StartLocked_vmax_1080 ==
  /\ pc = "locked"
  /\ reg_3007' = reg_3007 - 16 * ((reg_3007 \div 16) % 8)
                 + imx290_get_winmode(nlanes, current_mode)
  /\ vmax' = 1125
  /\ io' = io \o <<<<"vmax", vmax', reg_3007', 0>>>>
  /\ pc' = "ctrls"
  /\ UNCHANGED <<nlanes, inck, type, fps, current_mode, code, bpp, ctrl, usage, powered,
                 xclk, supplies, rst, streaming, req, t_in, t_out>>

\* the section of imx290_start_streaming under imx290->lock
StartLocked ==
  /\ pc = "locked"
  /\ reg_3007' = reg_3007 - 16 * ((reg_3007 \div 16) % 8)
                 + imx290_get_winmode(nlanes, current_mode)
  /\ vmax' = IF imx290_modes_ptr(nlanes)[current_mode].height = 1080 THEN 1125 ELSE 750
  /\ io' = io \o <<<<"vmax", vmax', reg_3007', 0>>>>
  /\ pc' = "ctrls"
  /\ UNCHANGED <<nlanes, inck, type, fps, current_mode, code, bpp, ctrl, usage, powered,
                 xclk, supplies, rst, streaming, req, t_in, t_out>>

\* number of bus writes of a control replay that succeeds
NCtrlWrites == v4l2_ctrl_handler_setup(D, ctrl, NoFail, 0).n

StartCtrls ==
  /\ pc = "ctrls"
  /\ \E bus \in BusesEIO(NCtrlWrites) :
       LET r == v4l2_ctrl_handler_setup(D, ctrl, bus, 0)
       IN /\ StartStep(r.io, "v4l2_ctrl_handler_setup", r.ret, "standby")
          /\ reg_3007' = r.reg_3007
  /\ UNCHANGED vmax

StartStandby ==
  /\ pc = "standby"
  /\ \E bus \in Buses(2) :
       LET r == imx290_start_standby(bus)
       IN StartStep(r.io, "xmsta", r.ret, "idle")
  /\ UNCHANGED <<reg_3007, vmax>>

\* imx290_set_stream(enable = 0) giving up when imx290_stop_streaming fails
SetStreamOff_strict ==
  /\ pc = "idle"
  /\ Collected
  /\ streaming
  /\ \E bus \in Buses(2) :
       LET r == imx290_stop_streaming(bus)
       IN /\ Effects(r.io)
          /\ IF r.ret < 0
             THEN /\ io' = r.io \o <<EvRet("imx290_stop_streaming", r.ret),
                                      EvRet("imx290_set_stream", r.ret)>>
                  /\ usage' = usage
                  /\ streaming' = TRUE
                  /\ req' = <<"stream_off", r.ret>>
             ELSE /\ io' = r.io \o <<EvRet("imx290_stop_streaming", 0),
                                      EvPm("pm_runtime_put", usage, usage - 1, 0),
                                      EvRet("imx290_set_stream", 0)>>
                  /\ usage' = usage - 1
                  /\ streaming' = FALSE
                  /\ req' = <<"stream_off", 0>>
  /\ UNCHANGED <<nlanes, inck, type, fps, current_mode, code, bpp, reg_3007, vmax, ctrl,
                 powered, pc, t_in, t_out>>

\* imx290_set_stream(enable = 0)
SetStreamOff ==
  /\ pc = "idle"
  /\ Collected
  /\ streaming
  /\ \E bus \in Buses(2) :
       LET r == imx290_stop_streaming(bus)
       IN /\ io' = r.io \o <<EvRet("imx290_stop_streaming", r.ret),
                             EvPm("pm_runtime_put", usage, usage - 1, 0),
                             EvRet("imx290_set_stream", 0)>>
          /\ Effects(r.io)
  /\ usage' = usage - 1
  /\ streaming' = FALSE
  /\ req' = <<"stream_off", 0>>
  /\ UNCHANGED <<nlanes, inck, type, fps, current_mode, code, bpp, reg_3007, vmax, ctrl,
                 powered, pc, t_in, t_out>>

\* formats a caller asks for: <<width, height, code>>
FmtSizes == {<<1920, 1080>>, <<1280, 720>>, <<1600, 900>>}
FmtCodes == {MEDIA_BUS_FMT_SRGGB12_1X12, 0}

\* index into imx290_formats of the code, the first entry when it is unknown
FormatIndex(c) ==
  IF \E i \in 1..Len(imx290_formats) : imx290_formats[i][1] = c
  THEN CHOOSE i \in 1..Len(imx290_formats) : imx290_formats[i][1] = c
  ELSE 1

\* the size a caller asks set_fmt for
EvFmt(w, h) == <<"set_fmt", w, h, 0>>

\* the active format stored without the pixel rate being recomputed
fmt_store_stale_rate(mode, i, try) ==
  IF try
  THEN UNCHANGED <<current_mode, bpp, code, ctrl>>
  ELSE /\ current_mode' = mode
       /\ bpp' = imx290_formats[i][2]
       /\ code' = imx290_formats[i][1]
       /\ ctrl' = [ctrl EXCEPT !.link_freq = imx290_get_link_freq_index(nlanes, mode)]

\* the section of imx290_set_fmt under imx290->lock that stores the format:
\* nothing of the device for a TRY format; mode, pixel depth, code and the
\* two read-only controls for the active format
fmt_store(mode, i, try) ==
  IF try
  THEN UNCHANGED <<current_mode, bpp, code, ctrl>>
  ELSE /\ current_mode' = mode
       /\ bpp' = imx290_formats[i][2]
       /\ code' = imx290_formats[i][1]
       /\ ctrl' = [ctrl EXCEPT
            !.link_freq = imx290_get_link_freq_index(nlanes, mode),
            !.pixel_rate = imx290_calc_pixel_rate(nlanes, inck, mode,
                                                  imx290_formats[i][2])]

\* t_out takes the format written back to the caller
imx290_set_fmt(w, h, c, try) ==
  LET mode == v4l2_find_nearest_size(imx290_modes_ptr(nlanes), w, h)
      i == FormatIndex(c)
  IN /\ Collected
     /\ fmt_store(mode, i, try)
     /\ t_out' = <<[try |-> try, width |-> imx290_modes_ptr(nlanes)[mode].width,
                     height |-> imx290_modes_ptr(nlanes)[mode].height,
                     code |-> imx290_formats[i][1]]>>
     /\ io' = <<EvFmt(w, h)>>
     /\ req' = <<"set_fmt", 0>>
     /\ UNCHANGED <<nlanes, inck, type, fps, reg_3007, vmax, usage, powered, xclk,
                    supplies, rst, pc, streaming, t_in>>

SetFmt ==
  \E s \in FmtSizes, c \in FmtCodes, try \in BOOLEAN : imx290_set_fmt(s[1], s[2], c, try)

\* imx290_intervals: <<numerator, denominator>>
imx290_intervals == << <<1, 25>>, <<1, 30>>, <<1, 50>>, <<1, 60>> >>

\* frame intervals a caller asks for
Intervals == {<<1, 40>>, <<1, 25>>}

\* the loop with a strict comparison
IntervalMatch_strict(a, b) ==
  LET hit(i) == a * imx290_intervals[i][2] > b * imx290_intervals[i][1]
  IN IF \E i \in 1..4 : hit(i)
     THEN (CHOOSE i \in 1..4 : hit(i) /\ \A j \in 1..(i - 1) : ~hit(j)) - 1
     ELSE 3

\* the class the loop of mipi_csis_s_frame_interval ends with (FPS_25 = 0 ...)
IntervalMatch(a, b) ==
  LET hit(i) == a * imx290_intervals[i][2] >= b * imx290_intervals[i][1]
  IN IF \E i \in 1..4 : hit(i)
     THEN (CHOOSE i \in 1..4 : hit(i) /\ \A j \in 1..(i - 1) : ~hit(j)) - 1
     ELSE 3

\* the class is stored; t_out takes the interval written back to the caller
mipi_csis_s_frame_interval(a, b) ==
  /\ Collected
  /\ fps' = IntervalMatch(a, b)
  /\ t_out' = <<imx290_intervals[IntervalMatch(a, b) + 1]>>
  /\ req' = <<"s_frame_interval", 0>>
  /\ UNCHANGED <<nlanes, inck, type, current_mode, code, bpp, reg_3007, vmax, ctrl, usage,
                 powered, xclk, supplies, rst, pc, streaming, io, t_in>>

SetFrameInterval == \E iv \in Intervals : mipi_csis_s_frame_interval(iv[1], iv[2])

\* values a caller sets the controls to
CtrlVals ==
  [cg_switch |-> {0}, hflip |-> {0, 1}, vflip |-> {0}, test_pattern |-> {0, 3},
   gain |-> {0}, exposure |-> {10000}]

\* the request as the log starts with it: the control, the value asked for,
\* and the cached flip byte at that time
EvCtrl(id, v, r3007) == <<id, v, r3007, 0>>

\* pm_runtime_get_if_in_use, taken as always successful
pm_runtime_get_if_in_use_always == TRUE

\* pm_runtime_get_if_in_use: a reference is taken only when the device is
\* active and in use
pm_runtime_get_if_in_use == powered /\ usage > 0

\* at most MaxHeld of the controls a caller sets hold a value other than
\* their default at a time
MaxHeld == 2
Held(c, ids) == Cardinality({id \in ids : c[id] # CtrlDefaults(nlanes, inck)[id]})

\* s_ctrl of a control with a value it does not hold: imx290_set_ctrl runs,
\* and the handler keeps the new value when it returns 0.  vals gives the
\* values tried for each control; all: both error codes are tried
s_ctrl(vals, all) ==
  /\ pc = "idle"
  /\ Collected
  /\ \E id \in DOMAIN vals : \E v \in vals[id] :
       LET in_use == pm_runtime_get_if_in_use
           n == imx290_set_ctrl(D, id, v, NoFail, 0).n
       IN /\ v # ctrl[id]
          /\ Held([ctrl EXCEPT ![id] = v], DOMAIN vals) <= MaxHeld
          /\ \E bus \in (IF all THEN Buses(IF in_use THEN n ELSE 0)
                          ELSE BusesEIO(IF in_use THEN n ELSE 0)) :
               LET r == IF in_use
                        THEN imx290_set_ctrl(D, id, v, bus, 0)
                        ELSE [io |-> <<>>, ret |-> 0, n |-> 0, reg_3007 |-> reg_3007]
               IN /\ io' = <<EvCtrl(id, v, reg_3007)>> \o r.io \o
                           <<EvRet("imx290_set_ctrl", r.ret)>>
                  /\ Effects(r.io)
                  /\ reg_3007' = r.reg_3007
                  /\ ctrl' = IF r.ret = 0 THEN [ctrl EXCEPT ![id] = v] ELSE ctrl
                  /\ req' = <<"s_ctrl", r.ret>>
  /\ UNCHANGED <<nlanes, inck, type, fps, current_mode, code, bpp, vmax, usage, powered,
                 pc, streaming, t_in, t_out>>

\* VIDIOC_S_CTRL on a writable control
SetCtrl == s_ctrl(CtrlVals, FALSE)

\* the caller takes the result of the finished request
Return ==
  /\ pc = "idle"
  /\ ~Collected
  /\ io' = <<>>
  /\ t_out' = <<>>
  /\ req' = <<"none", 0>>
  /\ UNCHANGED <<nlanes, inck, type, fps, current_mode, code, bpp, reg_3007, vmax, ctrl,
                 usage, powered, xclk, supplies, rst, pc, streaming, t_in>>

Next ==
  \/ Return
  \/ imx290_s_power_on
  \/ imx290_s_power_off
  \/ RuntimeSuspend
  \/ SetStreamOn
  \/ StartInit
  \/ StartFormat
  \/ StartMode
  \/ StartLocked
  \/ StartCtrls
  \/ StartStandby
  \/ SetStreamOff
  \/ SetFmt
  \/ SetFrameInterval
  \/ SetCtrl

Spec == Init /\ [][Next]_vars

-----------------------------------------------------------------------------
(* The condition evaluator and the sequence applier on their own *)

MaxTab == 3            \* longest register table applied on its own

\* entries the tables are built from
TabEntries ==
  {<<a[1], a[2], c>> : a \in {<<12297, 1>>, <<13317, 16>>},
                       c \in {0, COND_50_60_FPS, COND_25_30_FPS + COND_2_LANES, COND_INCK_37}}

Tables == UNION {[1..m -> TabEntries] : m \in 0..MaxTab}

FnInputs ==
  [fn : {"match"}, cfg : Cfgs, cond : 0..255] \cup [fn : {"array"}, cfg : Cfgs, tab : Tables]

FnInit ==
  /\ ProbeDone(2, INCK_37, IMX290_TYPE_290)
  /\ t_in \in FnInputs
  /\ t_out = <<>>

FnFrame ==
  UNCHANGED <<nlanes, inck, type, fps, current_mode, code, bpp, reg_3007, vmax, ctrl,
              usage, powered, xclk, supplies, rst, pc, streaming, io, req, t_in>>

ApplyMatch ==
  /\ t_in.fn = "match"
  /\ t_out = <<>>
  /\ t_out' = <<imx290_settings_match(t_in.cfg, t_in.cond)>>
  /\ FnFrame

ApplyArray ==
  /\ t_in.fn = "array"
  /\ t_out = <<>>
  /\ \E bus \in Buses(Len(t_in.tab)) :
       t_out' = <<imx290_set_register_array(t_in.cfg, t_in.tab, bus, 0), bus>>
  /\ FnFrame

NextFn == ApplyMatch \/ ApplyArray

SpecFn == FnInit /\ [][NextFn]_vars

-----------------------------------------------------------------------------
(* The power callbacks under every configuration and every failing call *)

PowerInit ==
  /\ \E n \in {2, 4}, k \in {INCK_37, INCK_74}, ty \in {IMX290_TYPE_290, IMX290_TYPE_327} :
       ProbeDone(n, k, ty)
  /\ t_in = [fn |-> "none"]
  /\ t_out = <<>>

PowerUp == s_power_on(TRUE)

NextPower == Return \/ PowerUp \/ imx290_s_power_off \/ RuntimeSuspend

SpecPower == PowerInit /\ [][NextPower]_vars

-----------------------------------------------------------------------------
(* Control updates in every power state *)

\* values tried for every control of imx290_ctrls; link_freq and pixel_rate
\* are set by imx290_set_fmt through the same handler
CtrlValsAll ==
  [cg_switch |-> {0, 1}, hflip |-> {0, 1}, vflip |-> {0, 1}, test_pattern |-> {0, 3},
   gain |-> {0, 100}, exposure |-> {10000, 5000}, link_freq |-> {0, 1},
   pixel_rate |-> {imx290_calc_pixel_rate(nlanes, inck, 1, 10),
                   imx290_calc_pixel_rate(nlanes, inck, 2, 10)}]

CtrlUpdate == s_ctrl(CtrlValsAll, TRUE)

\* frame lengths the device may hold when it is idle and suspended: none
\* before the first start, that of 1080p after a streaming session
IdleVmax == {0, 1125}

\* the device after imx290_probe, or suspended again after a streaming
\* session at the default format (imx290_start_streaming has set vmax)
CtrlInit ==
  /\ \E b \in Boards :
       /\ nlanes = b[1]
       /\ inck = b[2]
       /\ type = b[3]
       /\ fps = IF b[2] = INCK_37 THEN FPS_30 ELSE FPS_60
       /\ current_mode = v4l2_find_nearest_size(imx290_modes_ptr(b[1]), 1920, 1080)
       /\ ctrl = CtrlDefaults(b[1], b[2])
  /\ code = imx290_formats[1][1]
  /\ bpp = imx290_formats[1][2]
  /\ reg_3007 = 0
  /\ vmax \in IdleVmax
  /\ usage = 0
  /\ powered = FALSE
  /\ xclk = 0
  /\ supplies = 0
  /\ rst = 1
  /\ pc = "idle"
  /\ streaming = FALSE
  /\ io = <<>>
  /\ req = <<"none", 0>>
  /\ t_in = [fn |-> "none"]
  /\ t_out = <<>>

NextCtrl == Return \/ imx290_s_power_on \/ imx290_s_power_off \/ RuntimeSuspend \/ CtrlUpdate

SpecCtrl == CtrlInit /\ [][NextCtrl]_vars

-----------------------------------------------------------------------------
(* The arithmetic of the driver, applied to inputs drawn from its ranges *)

\* frame lengths imx290_start_streaming sets
Vmaxes == {750, 1125}

\* only the frequency of the first mode is looked for
imx290_check_link_freqs_first(n, k, lf) ==
  IF \A j \in 1..Len(lf) : lf[j] # imx290_link_freqs_ptr(n, k)[1]
  THEN imx290_link_freqs_ptr(n, k)[1]
  ELSE 0

\* the first frequency of the device's table that the endpoint's
\* link-frequencies lf do not list, 0 when all are listed
imx290_check_link_freqs(n, k, lf) ==
  LET freqs == imx290_link_freqs_ptr(n, k)
      missing == {i \in 1..Len(freqs) : \A j \in 1..Len(lf) : lf[j] # freqs[i]}
  IN IF missing = {} THEN 0
     ELSE freqs[CHOOSE i \in missing : \A j \in missing : i <= j]

\* the checks of imx290_probe on the endpoint and the clock, once the
\* endpoint is parsed and the clock found: lanes n, clock frequency hz,
\* link-frequencies lf; later is the result of the steps that follow (clock
\* rate, supplies, reset line, controls, registration, first power-on), 0
\* when all succeed
imx290_probe(n, hz, lf, later) ==
  CASE n # 2 /\ n # 4 -> [ret |-> EINVAL]
    [] n \in {2, 4} /\ hz # 37125000 /\ hz # 74250000 -> [ret |-> EINVAL]
    [] n \in {2, 4} /\ hz \in {37125000, 74250000} ->
         LET k == IF hz = 37125000 THEN INCK_37 ELSE INCK_74
         IN IF Len(lf) = 0 THEN [ret |-> EINVAL]
            ELSE IF imx290_check_link_freqs(n, k, lf) # 0 THEN [ret |-> EINVAL]
            ELSE IF later # 0 THEN [ret |-> later]
            ELSE [ret |-> 0, inck |-> k, fps |-> IF k = INCK_37 THEN FPS_30 ELSE FPS_60]

\* the frequencies of the four tables, and a frequency of none
LinkFreqValues ==
  {148500000, 222750000, 297000000, 445500000, 594000000, 891000000, 100000000}

\* endpoints list up to MaxLinkFreqs link-frequencies
MaxLinkFreqs == 2
LinkFreqLists == UNION {[1..m -> LinkFreqValues] : m \in 0..MaxLinkFreqs}

\* values handed to imx290_write_buffered_reg (u32; the values below 2^31)
BufferedValues == {0, 1, 255, 256, 65535, 16909060, 2147483647}

\* frame intervals asked for: numerator / denominator seconds
MaxNumerator == 2
MaxDenominator == 125

\* the tables applied at power-on and at the start of streaming
SettingsTables ==
  [global_init |-> imx290_global_init_settings,
   mode_1080p |-> imx290_1080p_settings,
   mode_720p |-> imx290_720p_settings,
   poweron |-> imx290_poweron_settings]

NumInputs ==
  [fn : {"exposure"}, vmax : Vmaxes, value : 0..EXPOSURE_MAX]
    \cup [fn : {"pixel_rate"}, nlanes : {2, 4}, inck : {INCK_37, INCK_74}, mode : 1..2,
          bpp : {imx290_formats[i][2] : i \in 1..Len(imx290_formats)}]
    \cup [fn : {"interval"}, numerator : 0..MaxNumerator, denominator : 0..MaxDenominator]
    \cup [fn : {"probe"}, nlanes : {1, 2, 4}, hz : {24000000, 37125000, 74250000},
          lf : LinkFreqLists, later : {0, EIO}]
    \cup [fn : {"buffered"}, address_low : {IMX290_GAIN, 12320, 65535}, nr_regs : 1..4,
          value : BufferedValues]
    \cup [fn : {"cg_switch"}, cfg : Cfgs, value : {0, 1}]
    \cup [fn : {"table"}, tab : DOMAIN SettingsTables, cfg : Cfgs]

NumInit ==
  /\ ProbeDone(2, INCK_37, IMX290_TYPE_290)
  /\ t_in \in NumInputs
  /\ t_out = <<>>

\* imx290_set_exposure of a streaming device, all writes succeeding
ApplyExposure ==
  /\ t_in.fn = "exposure"
  /\ t_out = <<>>
  /\ t_out' = <<imx290_set_exposure([D EXCEPT !.vmax = t_in.vmax], t_in.value, NoFail, 0)>>
  /\ FnFrame

\* imx290_calc_pixel_rate for a device of the given lanes and clock, at the
\* given mode and pixel depth
ApplyPixelRate ==
  /\ t_in.fn = "pixel_rate"
  /\ t_out = <<>>
  /\ t_out' = <<imx290_calc_pixel_rate(t_in.nlanes, t_in.inck, t_in.mode, t_in.bpp)>>
  /\ FnFrame

ApplyInterval ==
  /\ t_in.fn = "interval"
  /\ mipi_csis_s_frame_interval(t_in.numerator, t_in.denominator)

ApplyProbe ==
  /\ t_in.fn = "probe"
  /\ t_out = <<>>
  /\ t_out' = <<imx290_probe(t_in.nlanes, t_in.hz, t_in.lf, t_in.later)>>
  /\ FnFrame

ApplyBuffered ==
  /\ t_in.fn = "buffered"
  /\ t_out = <<>>
  /\ \E bus \in Buses(t_in.nr_regs + 2) :
       t_out' = <<imx290_write_buffered_reg(t_in.address_low, t_in.nr_regs, t_in.value,
                                            bus, 0), bus>>
  /\ FnFrame

\* the conversion-gain branch of imx290_set_ctrl on a powered device, under
\* every configuration
ApplyCgSwitch ==
  /\ t_in.fn = "cg_switch"
  /\ t_out = <<>>
  /\ \E bus \in Buses(3) :
       t_out' = <<imx290_set_ctrl([D EXCEPT !.cfg = t_in.cfg], "cg_switch", t_in.value,
                                  bus, 0), bus>>
  /\ FnFrame

\* imx290_set_register_array over a whole table under every configuration,
\* with a failure at each write
ApplyTable ==
  /\ t_in.fn = "table"
  /\ t_out = <<>>
  /\ \E bus \in Buses(NWrites(t_in.cfg, SettingsTables[t_in.tab])) :
       t_out' = <<imx290_set_register_array(t_in.cfg, SettingsTables[t_in.tab], bus, 0),
                  bus>>
  /\ FnFrame

NextNum ==
  \/ ApplyExposure
  \/ ApplyPixelRate
  \/ ApplyInterval
  \/ ApplyProbe
  \/ ApplyBuffered
  \/ ApplyCgSwitch
  \/ ApplyTable

SpecNum == NumInit /\ [][NextNum]_vars

-----------------------------------------------------------------------------
(* set_fmt from a second thread while imx290_start_streaming runs *)

MaxRacing == 1         \* cap on the set_fmt calls running against one start

\* number of set_fmt calls that ran against the start in progress
Racing(evs) == Cardinality({k \in DOMAIN evs : evs[k][1] = "set_fmt"})

\* imx290_set_fmt of the active format from another thread, between two steps
\* of imx290_start_streaming: its body runs under imx290->lock, which the
\* start holds only inside StartLocked, so it can run between any two steps
RaceSetFmt ==
  /\ pc # "idle"
  /\ Racing(io) < MaxRacing
  /\ \E sz \in FmtSizes, c \in FmtCodes :
       /\ fmt_store(v4l2_find_nearest_size(imx290_modes_ptr(nlanes), sz[1], sz[2]),
                    FormatIndex(c), FALSE)
       /\ io' = io \o <<EvFmt(sz[1], sz[2])>>
  /\ UNCHANGED <<nlanes, inck, type, fps, reg_3007, vmax, usage, powered, xclk,
                 supplies, rst, pc, streaming, req, t_in, t_out>>

NextRace ==
  \/ Return
  \/ SetStreamOn
  \/ StartInit
  \/ StartFormat
  \/ StartMode
  \/ StartLocked
  \/ StartCtrls
  \/ StartStandby
  \/ SetStreamOff
  \/ SetFmt
  \/ RaceSetFmt

SpecRace == Init /\ [][NextRace]_vars

-----------------------------------------------------------------------------
(* imx290->lock: the accesses of each path to the state it guards *)

\* The steps of a path in program order: <<"lock", 0>> and <<"unlock", 0>>
\* take and release imx290->lock, <<"r", field>> and <<"w", field>> read and
\* write a field of struct imx290.

\* imx290_get_fmt
get_fmt_path(try) ==
  <<<<"lock", 0>>>>
    \o (IF try THEN <<>> ELSE <<<<"r", "current_format">>>>)
    \o <<<<"unlock", 0>>>>

\* imx290_set_fmt, with imx290_get_link_freq_index and imx290_calc_pixel_rate
\* called for the two read-only controls
set_fmt_path(try) ==
  <<<<"lock", 0>>>>
    \o (IF try THEN <<>>
        ELSE <<<<"w", "current_mode">>, <<"w", "bpp">>,
               <<"r", "current_mode">>,
               <<"r", "current_mode">>, <<"r", "bpp">>,
               <<"w", "current_format">>>>)
    \o <<<<"unlock", 0>>>>

\* imx290_set_flip; ok: the register write succeeded
set_flip_path(ok) ==
  <<<<"lock", 0>>, <<"r", "reg_3007">>>>
    \o (IF ok THEN <<<<"w", "reg_3007">>>> ELSE <<>>)
    \o <<<<"unlock", 0>>>>

\* imx290_set_exposure; zero: vmax is still 0
set_exposure_path(zero) ==
  <<<<"r", "vmax">>>>
    \o (IF zero THEN <<>> ELSE <<<<"r", "vmax">>, <<"r", "vmax">>>>)

\* the test-pattern branch of imx290_set_ctrl; off: the pattern is switched off
test_pattern_path(off) == IF off THEN <<<<"r", "bpp">>>> ELSE <<>>

\* imx290_start_streaming up to the control replay
start_streaming_path ==
  <<<<"r", "current_format">>,
    <<"r", "current_mode">>,
    <<"lock", 0>>,
    <<"r", "reg_3007">>, <<"w", "reg_3007">>,
    <<"r", "current_mode">>, <<"r", "current_mode">>,
    <<"r", "reg_3007">>, <<"w", "reg_3007">>,
    <<"r", "current_mode">>, <<"w", "vmax">>,
    <<"unlock", 0>>>>

Paths ==
  {get_fmt_path(try) : try \in BOOLEAN} \cup {set_fmt_path(try) : try \in BOOLEAN}
    \cup {set_flip_path(ok) : ok \in BOOLEAN}
    \cup {set_exposure_path(zero) : zero \in BOOLEAN}
    \cup {test_pattern_path(off) : off \in BOOLEAN}
    \cup {start_streaming_path}

\* two threads, each running one path; t_out holds the position of each
\* thread, the owner of imx290->lock (0: free) and the last access made,
\* <<thread, kind, field, owner of the lock at the access>>
LockInit ==
  /\ ProbeDone(2, INCK_37, IMX290_TYPE_290)
  /\ t_in \in [fn : {"threads"}, path : [1..2 -> Paths]]
  /\ t_out = [at |-> <<1, 1>>, owner |-> 0, last |-> <<>>]

\* the step thread th is at, <<"end", 0>> when its path is done
OpAt(th) ==
  IF t_out.at[th] <= Len(t_in.path[th]) THEN t_in.path[th][t_out.at[th]]
  ELSE <<"end", 0>>

mutex_lock ==
  /\ \E th \in 1..2 :
       /\ OpAt(th)[1] = "lock"
       /\ t_out.owner = 0
       /\ t_out' = [t_out EXCEPT !.at[th] = @ + 1, !.owner = th, !.last = <<>>]
  /\ FnFrame

mutex_unlock ==
  /\ \E th \in 1..2 :
       /\ OpAt(th)[1] = "unlock"
       /\ t_out.owner = th
       /\ t_out' = [t_out EXCEPT !.at[th] = @ + 1, !.owner = 0, !.last = <<>>]
  /\ FnFrame

Access ==
  /\ \E th \in 1..2 :
       /\ OpAt(th)[1] \in {"r", "w"}
       /\ t_out' = [t_out EXCEPT !.at[th] = @ + 1,
                                 !.last = <<th, OpAt(th)[1], OpAt(th)[2], t_out.owner>>]
  /\ FnFrame

NextLock == mutex_lock \/ mutex_unlock \/ Access

SpecLock == LockInit /\ [][NextLock]_vars

-----------------------------------------------------------------------------
(* A streaming session: the requests served while the device streams, with
   the log kept from the stream-enable on *)

MaxSession == 2        \* cap on the requests logged after the stream-enable

\* values the controls are set to while streaming
SessionVals == [cg_switch |-> {0, 1}, hflip |-> {0, 1}, vflip |-> {0, 1}]

\* sizes asked for while streaming
SessionSizes == {<<1920, 1080>>, <<1280, 720>>}

\* the requests logged since the stream-enable
SessionRequests(evs) ==
  {k \in DOMAIN evs :
     evs[k][1] \in DOMAIN SessionVals \cup {"set_fmt", "s_frame_interval"}}

\* the device streams, the stream-enable was the last request to return and
\* its log is still held
InSession ==
  /\ pc = "idle"
  /\ streaming
  /\ req = <<"stream_on", 0>>
  /\ Cardinality(SessionRequests(io)) < MaxSession

\* s_ctrl of a flip or of the conversion gain while streaming; all writes
\* succeed, or the last one (REGHOLD = 0) fails
SessionCtrl ==
  /\ InSession
  /\ \E id \in DOMAIN SessionVals : \E v \in SessionVals[id] :
       LET in_use == pm_runtime_get_if_in_use
           n == imx290_set_ctrl(D, id, v, NoFail, 0).n
       IN /\ v # ctrl[id]
          /\ \E bus \in {NoFail} \cup {FailAt(n, EIO) : k \in {n} \cap (IF in_use THEN {n} ELSE {})} :
               LET r == IF in_use
                        THEN imx290_set_ctrl(D, id, v, bus, 0)
                        ELSE [io |-> <<>>, ret |-> 0, n |-> 0, reg_3007 |-> reg_3007]
               IN /\ io' = io \o <<EvCtrl(id, v, reg_3007)>> \o r.io \o
                           <<EvRet("imx290_set_ctrl", r.ret)>>
                  /\ Effects(r.io)
                  /\ reg_3007' = r.reg_3007
                  /\ ctrl' = IF r.ret = 0 THEN [ctrl EXCEPT ![id] = v] ELSE ctrl
  /\ UNCHANGED <<nlanes, inck, type, fps, current_mode, code, bpp, vmax, usage, powered,
                 pc, streaming, req, t_in, t_out>>

\* imx290_set_fmt of the active format to the other mode while streaming
SessionFmt ==
  /\ InSession
  /\ \E sz \in SessionSizes :
       /\ v4l2_find_nearest_size(imx290_modes_ptr(nlanes), sz[1], sz[2]) # current_mode
       /\ fmt_store(v4l2_find_nearest_size(imx290_modes_ptr(nlanes), sz[1], sz[2]),
                    FormatIndex(code), FALSE)
       /\ io' = io \o <<EvFmt(sz[1], sz[2])>>
  /\ UNCHANGED <<nlanes, inck, type, fps, reg_3007, vmax, usage, powered, xclk,
                 supplies, rst, pc, streaming, req, t_in, t_out>>

\* mipi_csis_s_frame_interval selecting another class while streaming
SessionInterval ==
  /\ InSession
  /\ \E iv \in Intervals :
       /\ IntervalMatch(iv[1], iv[2]) # fps
       /\ fps' = IntervalMatch(iv[1], iv[2])
       /\ io' = io \o <<<<"s_frame_interval", iv[1], iv[2], 0>>>>
  /\ UNCHANGED <<nlanes, inck, type, current_mode, code, bpp, reg_3007, vmax, ctrl, usage,
                 powered, xclk, supplies, rst, pc, streaming, req, t_in, t_out>>

NextSession ==
  \/ Return
  \/ SetStreamOn
  \/ StartInit
  \/ StartFormat
  \/ StartMode
  \/ StartLocked
  \/ StartCtrls
  \/ StartStandby
  \/ SetStreamOff
  \/ SessionCtrl
  \/ SessionFmt
  \/ SessionInterval

\* the 2-lane board
SessionInit ==
  /\ ProbeDone(2, INCK_37, IMX290_TYPE_290)
  /\ t_in = [fn |-> "none"]
  /\ t_out = <<>>

SpecSession == SessionInit /\ [][NextSession]_vars

-----------------------------------------------------------------------------
(* Properties *)

Writes(evs) == SelectSeq(evs, LAMBDA e : e[1] = "w")
Idx(evs, kind) == {i \in 1..Len(evs) : evs[i][1] = kind}
Min(S) == CHOOSE k \in S : \A j \in S : k <= j
TablePairs(tab) == {<<tab[i][1], tab[i][2]>> : i \in 1..Len(tab)}

\* the condition evaluator as specified: on every axis the mask constrains,
\* the bit of the configuration's own value is in the mask
FpsBit(f) == 2 ^ f
LanesBit(n) == IF n = 2 THEN COND_2_LANES ELSE COND_4_LANES
InckBit(k) == IF k = INCK_37 THEN COND_INCK_37 ELSE COND_INCK_74
AxisOk(cond, msk, own) == BitAnd(cond, msk) = 0 \/ BitAnd(cond, own) # 0
SpecMatches(cfg, cond) ==
  /\ AxisOk(cond, COND_FPS_msk, FpsBit(cfg.fps))
  /\ AxisOk(cond, COND_LANES_msk, LanesBit(cfg.nlanes))
  /\ AxisOk(cond, COND_INCK_msk, InckBit(cfg.inck))

\* C1: imx290_settings_match(cfg, mask) is true exactly when, on each axis
\* on which the mask has a bit, the bit of the configuration's own value is
\* set; mask 0 always matches.
C1_MatchIsOwnBit ==
  (t_in.fn = "match" /\ t_out # <<>>) =>
     /\ t_out[1] = SpecMatches(t_in.cfg, t_in.cond)
     /\ (t_in.cond = 0 => t_out[1])

\* C2: imx290_set_register_array writes exactly the entries whose condition
\* matches the configuration, in table order, stops at the first failing
\* write and returns its error.
C2_ApplyWritesMatching ==
  (t_in.fn = "array" /\ t_out # <<>>) =>
     LET r == t_out[1]
         bus == t_out[2]
         want == SelectSeq(t_in.tab, LAMBDA s : SpecMatches(t_in.cfg, s[3]))
         ws == Writes(r.io)
         bad == bus.fail \cap (1..Len(want))
         n == IF bad = {} THEN Len(want) ELSE Min(bad)
     IN /\ Len(ws) = n
        /\ \A i \in 1..Len(ws) :
             /\ ws[i][2] = want[i][1]
             /\ ws[i][3] = want[i][2]
             /\ ws[i][4] = IF i \in bad THEN bus.err ELSE 0
        /\ r.ret = IF bad = {} THEN 0 ELSE bus.err

\* C3: a mask with bits on the frame-rate axis only matches exactly when the
\* bit of the current frame-rate class is set, whatever lanes and clock are;
\* a table of COND_50_60_FPS entries is not written at 30 fps.
C3_FpsOnlyMask ==
  /\ (t_in.fn = "match" /\ t_out # <<>> /\ t_in.cond \in 1..15) =>
        (t_out[1] <=> Bit(t_in.cond, t_in.cfg.fps) = 1)
  /\ (t_in.fn = "array" /\ t_out # <<>> /\ t_in.cfg.fps = FPS_30
        /\ \A i \in 1..Len(t_in.tab) : t_in.tab[i][3] = COND_50_60_FPS) =>
        (Writes(t_out[1].io) = <<>> /\ t_out[1].ret = 0)

C3_Witness ==
  /\ t_in.fn = "array"
  /\ t_in.cfg.fps = FPS_30
  /\ t_in.tab = << <<12297, 1, COND_50_60_FPS>> >>
  /\ t_out # <<>>

\* the writes of a power-on that succeeds: the power-on table for the lane
\* count, then the table of the variant
PowerOnWrites ==
  SelectSeq(imx290_poweron_settings,
            LAMBDA s : s[3] = 0 \/ s[3] = LanesBit(nlanes)) \o imx290_model_settings(type)

\* C4: power-on enables the clock, then the supplies, then deasserts reset,
\* then writes the power-on table, then the table of the variant; no write
\* comes before the reset is deasserted and no variant write before the
\* power-on table is complete.
C4_PowerOnOrder ==
  \A p \in Idx(io, "imx290_power_on") :
    LET seg == SubSeq(io, 1, p - 1)
        ws == Writes(seg)
        clk == {i \in Idx(seg, "clk_prepare_enable") : seg[i][4] = 0}
        sup == {i \in Idx(seg, "regulator_bulk_enable") : seg[i][4] = 0}
        rs0 == {i \in 1..Len(seg) : seg[i] = EvReset(0)}
    IN /\ \A s \in Idx(seg, "regulator_bulk_enable") : \E c \in clk : c < s
       /\ \A r \in rs0 : \E s \in sup : s < r
       /\ \A i \in Idx(seg, "w") : \E r \in rs0 : r < i
       /\ Len(ws) <= Len(PowerOnWrites)
       /\ \A i \in 1..Len(ws) :
            /\ ws[i][2] = PowerOnWrites[i][1]
            /\ ws[i][3] = PowerOnWrites[i][2]
            /\ i < Len(ws) => ws[i][4] = 0
       /\ io[p][4] = 0 =>
            /\ Len(ws) = Len(PowerOnWrites)
            /\ clk # {} /\ sup # {} /\ rs0 # {}

C4_Witness ==
  /\ powered
  /\ type = IMX290_TYPE_327
  /\ \E p \in Idx(io, "imx290_power_on") : io[p][4] = 0

\* C5: a power-on that fails at any step returns the error of the first
\* failing step, with reset asserted, supplies and clock disabled, state OFF.
C5_PowerOnUnwind ==
  \A p \in Idx(io, "imx290_power_on") :
    LET seg == SubSeq(io, 1, p - 1)
        failing == {i \in 1..Len(seg) : seg[i][4] # 0}
    IN /\ failing # {} <=> io[p][4] # 0
       /\ io[p][4] # 0 =>
            /\ io[p][4] = seg[Min(failing)][4]
            /\ ~powered
            /\ rst = 1
            /\ supplies = 0
            /\ xclk = 0

C5_Witness ==
  \E p \in Idx(io, "imx290_power_on") :
    /\ io[p][4] = ENXIO
    /\ \E i \in 1..(p - 1) :
         /\ io[i][1] = "w" /\ io[i][4] = ENXIO
         /\ <<io[i][2], io[i][3]>> \in TablePairs(imx290_model_settings(type))

\* C10: power-off reasserts reset, then disables the supplies, then the
\* clock (the reverse of power-on), cannot fail and ends in OFF.
C10_PowerOffReverse ==
  \A p \in Idx(io, "imx290_power_off") :
    /\ p > 3
    /\ io[p - 3] = EvReset(1)
    /\ io[p - 2] = EvSupplies(0, 0)
    /\ io[p - 1] = EvClk(0, 0)
    /\ io[p][4] = 0
    /\ ~powered

\* the steps of imx290_start_streaming, by the marker each leaves in the log
StartMarkers ==
  <<"global_init", "write_current_format", "current_mode", "vmax",
    "v4l2_ctrl_handler_setup", "xmsta">>
StepDone(k) == Idx(io, StartMarkers[k]) # {}
MarkerAt(k) == Min(Idx(io, StartMarkers[k]))
StepOk(k) == StepDone(k) /\ io[MarkerAt(k)][4] = 0
Pairs_global_init == TablePairs(imx290_global_init_settings)
Pairs_10bit == TablePairs(imx290_10bit_settings)
Pairs_12bit == TablePairs(imx290_12bit_settings)
Pairs_1080p == TablePairs(imx290_1080p_settings)
Pairs_720p == TablePairs(imx290_720p_settings)
\* the register values the table of step k (1..3) holds
StepPairs(k) ==
  CASE k = 1 -> Pairs_global_init
    [] k = 2 -> IF code = MEDIA_BUS_FMT_SRGGB10_1X10 THEN Pairs_10bit ELSE Pairs_12bit
    [] k = 3 -> IF imx290_modes_ptr(nlanes)[current_mode].height = 1080
                THEN Pairs_1080p ELSE Pairs_720p
MarkerPos(k) == IF StepDone(k) THEN MarkerAt(k) ELSE 0
StreamRequest == req[1] \in {"stream_on_pending", "stream_on"}
GetSyncAt == Min(Idx(io, "pm_runtime_get_sync"))

\* C6: start-streaming runs (a) global init table, (b) bit-depth table of the
\* pixel format, (c) mode table, (d) vmax, (e) control replay, (f) STANDBY=0,
\* 30 ms wait, XMSTA=0, in this order, each only after the previous one
\* succeeded; STANDBY is cleared only after (a)-(e) succeeded and XMSTA only
\* after STANDBY was cleared and the wait elapsed.
C6_StartOrder ==
  StreamRequest =>
    \A at \in {<<MarkerPos(1), MarkerPos(2), MarkerPos(3), MarkerPos(4), MarkerPos(5),
                 MarkerPos(6)>>} :
    \A g \in {GetSyncAt} :
    \A W \in {{j \in Idx(io, "w") : j > g}} :
      LET ok(k) == at[k] # 0 /\ io[at[k]][4] = 0
          step(j) == Min({k \in 1..6 : at[k] > j})
      IN /\ \A k \in 1..6 : Cardinality(Idx(io, StartMarkers[k])) <= 1
         /\ at[1] # 0 => (g < at[1] /\ io[g][4] >= 0)
         /\ \A k \in 2..6 : at[k] # 0 => (ok(k - 1) /\ at[k - 1] < at[k])
         /\ \A j \in W :
              /\ \E k \in 1..6 : at[k] > j
              /\ CASE step(j) <= 3 -> <<io[j][2], io[j][3]>> \in StepPairs(step(j))
                   [] step(j) = 4 -> FALSE
                   [] step(j) = 5 -> io[j][2] \notin {IMX290_STANDBY, IMX290_XMSTA}
                   [] step(j) = 6 ->
                        <<io[j][2], io[j][3]>> \in
                           {<<IMX290_STANDBY, 0>>, <<IMX290_XMSTA, 0>>}
              /\ (io[j][2] = IMX290_STANDBY /\ io[j][3] = 0) => (ok(5) /\ j > at[5])
              /\ (io[j][2] = IMX290_XMSTA /\ io[j][3] = 0) =>
                    /\ io[j - 1] = EvSleep(30000)
                    /\ io[j - 2] = EvWrite(IMX290_STANDBY, 0, 0)
         /\ \A k \in 1..3 : ok(k) =>
              \E j \in W : j < at[k] /\ (k > 1 => j > at[k - 1])
         /\ ok(6) => \E j \in W : io[j] = EvWrite(IMX290_XMSTA, 0, 0)
         /\ streaming => ok(6)

C6_Witness ==
  /\ req = <<"stream_on", 0>>
  /\ streaming
  /\ code = MEDIA_BUS_FMT_SRGGB12_1X12
  /\ StepOk(6)

FailedStart == \E i \in Idx(io, "imx290_start_streaming") : io[i][4] # 0
WasPowered == \E g \in Idx(io, "pm_runtime_get_sync") : io[g][4] = 1

\* C7 as stated: a start-streaming step failing on a device that was
\* POWERED_IDLE makes the request report an error and leaves the device
\* POWERED_IDLE, neither STREAMING nor powered off.
C7_StaysPoweredIdle ==
  (StreamRequest /\ FailedStart /\ WasPowered) =>
     /\ req[2] # 0
     /\ ~streaming
     /\ powered

\* C7: a failing start-streaming step makes the stream-enable request
\* return that error, the device is not STREAMING, and the power reference
\* the request took is released; the device stays POWERED_IDLE only while
\* another reference is held, otherwise runtime PM powers it off.
C7_FailedStartReleases ==
  (StreamRequest /\ FailedStart) =>
     LET i == Min(Idx(io, "imx290_start_streaming"))
     IN /\ req = <<"stream_on", io[i][4]>>
        /\ pc = "idle"
        /\ ~streaming
        /\ io[GetSyncAt][2] = usage
        /\ io[i + 1] = EvPm("pm_runtime_put", usage + 1, usage, 0)
        /\ io[i + 2] = EvRet("imx290_set_stream", io[i][4])
        /\ usage > 0 => powered
        /\ ~powered => (usage = 0 /\ Idx(io, "imx290_power_off") # {})

C7_Witness ==
  /\ StreamRequest
  /\ FailedStart
  /\ WasPowered
  /\ ~powered

\* C8 as stated: a stream-enable request on a device that is OFF fails or
\* does nothing: no register write, the device stays OFF.
C8_NoStartFromOff ==
  (StreamRequest /\ ~WasPowered) =>
     /\ Idx(io, "w") = {}
     /\ ~powered
     /\ ~streaming

\* C8: a stream-enable request on a device that is OFF first powers it on
\* itself; start-streaming writes happen only after that power-on succeeded,
\* and when it fails the request returns its error, nothing of
\* start-streaming runs and the device is left OFF.
C8_StartPowersOn ==
  (StreamRequest /\ ~WasPowered) =>
     LET p == Min(Idx(io, "imx290_power_on"))
     IN /\ Idx(io, "imx290_power_on") # {}
        /\ p < GetSyncAt
        /\ io[GetSyncAt][4] = io[p][4]
        /\ \A k \in 1..6 : StepDone(k) => (io[p][4] = 0 /\ MarkerAt(k) > p)
        /\ io[p][4] # 0 =>
             /\ req = <<"stream_on", io[p][4]>>
             /\ \A j \in Idx(io, "w") : j < p
             /\ ~powered
             /\ ~streaming
             /\ io[GetSyncAt + 1] = EvPm("pm_runtime_put_noidle", usage + 1, usage, 0)
        /\ streaming => io[p][4] = 0

C8_Witness ==
  /\ StreamRequest
  /\ ~WasPowered
  /\ streaming
  /\ powered
  /\ \E p \in Idx(io, "imx290_power_on") : io[p][4] = 0

\* C9: stop-streaming writes STANDBY=1, waits the settle window, then writes
\* XMSTA=1; whatever write fails, the stream-disable request returns success,
\* the device is no longer STREAMING and the power reference of the stream
\* start is released.
C9_StopBestEffort ==
  req[1] = "stream_off" =>
     LET s == Min(Idx(io, "imx290_stop_streaming"))
         seg == SubSeq(io, 1, s - 1)
     IN /\ Idx(io, "imx290_stop_streaming") # {}
        /\ \/ /\ Len(seg) = 1
              /\ seg[1] = EvWrite(IMX290_STANDBY, 1, io[s][4])
              /\ io[s][4] < 0
           \/ /\ Len(seg) = 3
              /\ seg[1] = EvWrite(IMX290_STANDBY, 1, 0)
              /\ seg[2] = EvSleep(30000)
              /\ seg[3] = EvWrite(IMX290_XMSTA, 1, io[s][4])
        /\ io[s + 1] = EvPm("pm_runtime_put", usage + 1, usage, 0)
        /\ io[s + 2] = EvRet("imx290_set_stream", 0)
        /\ req[2] = 0
        /\ ~streaming

C9_Witness ==
  /\ req = <<"stream_off", 0>>
  /\ ~streaming
  /\ \E s \in Idx(io, "imx290_stop_streaming") : io[s][4] = ENXIO
  /\ io[1] = EvWrite(IMX290_STANDBY, 1, ENXIO)

-----------------------------------------------------------------------------
(* Properties of the control updates *)

\* a step that is a control update
CtrlStep == req[1] = "none" /\ req'[1] = "s_ctrl"

\* C11: a control update made while the device is off returns success, issues
\* no bus transfer and leaves the cached flip byte and vmax as they were; a
\* control update issues register writes only while the device is powered.
C11_OffNoBus ==
  [][CtrlStep =>
       /\ ~powered => /\ req'[2] = 0
                      /\ Writes(io') = <<>>
                      /\ reg_3007' = reg_3007
                      /\ vmax' = vmax
       /\ Writes(io') # <<>> => powered]_vars

C11_Witness ==
  /\ req = <<"s_ctrl", 0>>
  /\ ~powered
  /\ vmax = 1125
  /\ io = <<EvCtrl("exposure", 5000, 0), EvRet("imx290_set_ctrl", 0)>>

\* C12: when a bus write of a control update fails, the update returns the
\* error of that write; it never returns success.
C12_BusErrorReturned ==
  req[1] = "s_ctrl" =>
    \A i \in Idx(io, "w") : io[i][4] # 0 => req[2] = io[i][4]

\* the shutter value a log of imx290_set_exposure programs (0x3020..0x3022)
ExposureRaw(evs) == Writes(evs)[2][3] + 256 * Writes(evs)[3][3] + 65536 * Writes(evs)[4][3]

\* C13: the raw shutter value is monotonically non-increasing in the control
\* value, and the number of lines subtracted from vmax - 2 is never 0: the
\* raw value is at most vmax - 3.
C13_ExposureMonotonic ==
  (t_in.fn = "exposure" /\ t_out # <<>>) =>
    \A raw \in {ExposureRaw(t_out[1].io)} :
      /\ t_out[1].ret = 0
      /\ Len(Writes(t_out[1].io)) = 5
      /\ raw >= 0
      /\ raw <= t_in.vmax - 3
      /\ t_in.value < EXPOSURE_MAX =>
           raw >= ExposureRaw(imx290_set_exposure([D EXCEPT !.vmax = t_in.vmax],
                                                  t_in.value + 1, NoFail, 0).io)

\* the control at 0, where the scaled value is clamped to one line
C13_Witness ==
  /\ t_in.fn = "exposure"
  /\ t_in.value = 0
  /\ t_out # <<>>
  /\ ExposureRaw(t_out[1].io) = t_in.vmax - 3

\* the bit of the flip byte a flip control drives
FlipBit(id) == IF id = "hflip" THEN 1 ELSE 0
FlipRequest == req[1] = "s_ctrl" /\ io[1][1] \in {"hflip", "vflip"}

\* C14: a successful flip update of a powered device issues exactly one write
\* to 0x3007, between HOLD=1 and HOLD=0; afterwards the cached byte is the
\* byte written, its bit 1 (H-flip) or bit 0 (V-flip) is the value applied
\* and every other bit is as before, so that after any sequence of such
\* updates bit 1 is the last H-flip value and bit 0 the last V-flip value.
C14_FlipBits ==
  (FlipRequest /\ req[2] = 0 /\ pm_runtime_get_if_in_use) =>
    \A W \in {Writes(io)} :
      /\ Len(W) = 3
      /\ W[1] = EvWrite(IMX290_REGHOLD, 1, 0)
      /\ W[2][2] = 12295
      /\ W[3] = EvWrite(IMX290_REGHOLD, 0, 0)
      /\ reg_3007 = W[2][3]
      /\ Bit(reg_3007, FlipBit(io[1][1])) = io[1][2]
      /\ \A k \in (0..7) \ {FlipBit(io[1][1])} : Bit(reg_3007, k) = Bit(io[1][3], k)

\* V-flip switched on while H-flip is on
C14_Witness ==
  /\ FlipRequest
  /\ req[2] = 0
  /\ io[1] = EvCtrl("vflip", 1, 2)
  /\ reg_3007 = 3
  /\ Len(Writes(io)) = 3

\* C15: when a write of the flip bracket fails, the cached byte keeps its
\* value and the update returns the error; the cached byte changes only when
\* all three writes succeeded.
C15_FlipFailureKeepsCache ==
  FlipRequest =>
    /\ \A i \in Idx(io, "w") : io[i][4] # 0 => (reg_3007 = io[1][3] /\ req[2] = io[i][4])
    /\ reg_3007 # io[1][3] =>
         (Len(Writes(io)) = 3 /\ \A i \in Idx(io, "w") : io[i][4] = 0)

\* the closing HOLD=0 fails after the flip byte was written
C15_Witness ==
  /\ FlipRequest
  /\ io[1] = EvCtrl("hflip", 1, 0)
  /\ Len(Writes(io)) = 3
  /\ Writes(io)[2] = EvWrite(12295, 2, 0)
  /\ Writes(io)[3][4] = EIO
  /\ req[2] = EIO
  /\ reg_3007 = 0

\* products beyond 32 bits, as <<high, low>> digits in base 10^5
Base == 10 ^ 5
Wide(x, f) == <<(x \div Base) * f + ((x % Base) * f) \div Base, ((x % Base) * f) % Base>>
WideAdd(a, c) == <<a[1] + (a[2] + c) \div Base, (a[2] + c) % Base>>
WideLe(a, b) == a[1] < b[1] \/ (a[1] = b[1] /\ a[2] <= b[2])
WideLt(a, b) == a[1] < b[1] \/ (a[1] = b[1] /\ a[2] < b[2])

\* C16: the pixel rate p is the floor of link_freq * 2 * lanes / bpp:
\* p * bpp <= link_freq * 2 * lanes < p * bpp + bpp, and the product is
\* below 2^33 = 85899 * 10^5 + 34592, far from wrapping 64 bits.
C16_PixelRateFloor ==
  (t_in.fn = "pixel_rate" /\ t_out # <<>>) =>
    \A X \in {Wide(imx290_link_freqs_ptr(t_in.nlanes, t_in.inck)
                      [imx290_modes_ptr(t_in.nlanes)[t_in.mode].link_freq_index + 1],
                   2 * t_in.nlanes)} :
      \A P \in {Wide(t_out[1], t_in.bpp)} :
        /\ WideLe(P, X)
        /\ WideLt(X, WideAdd(P, t_in.bpp))
        /\ WideLt(X, <<85899, 34592>>)

\* the fastest link: 891 MHz on 2 lanes at 12 bits per pixel
C16_Witness ==
  /\ t_in = [fn |-> "pixel_rate", nlanes |-> 2, inck |-> INCK_74, mode |-> 1, bpp |-> 12]
  /\ t_out = <<297000000>>

\* C17: a device on 2 lanes with the 37.125 MHz clock starts in frame-rate
\* class 30; setting the active format to 1920x1080 selects the 1080p mode,
\* link-frequency index 0, link frequency 445,500,000 Hz and, at 10 bits per
\* pixel, pixel rate 178,200,000.
C17_Default1080p ==
  /\ (nlanes = 2 /\ inck = INCK_37) => fps = FPS_30
  /\ []((/\ nlanes = 2
         /\ inck = INCK_37
         /\ req[1] = "set_fmt"
         /\ io = <<EvFmt(1920, 1080)>>
         /\ ~t_out[1].try) =>
          /\ imx290_modes_ptr(nlanes)[current_mode].width = 1920
          /\ imx290_modes_ptr(nlanes)[current_mode].height = 1080
          /\ imx290_modes_ptr(nlanes)[current_mode].link_freq_index = 0
          /\ ctrl.link_freq = 0
          /\ imx290_link_freqs_ptr(nlanes, inck)[ctrl.link_freq + 1] = 445500000
          /\ bpp = 10 => ctrl.pixel_rate = 178200000)

C17_Witness ==
  /\ nlanes = 2
  /\ inck = INCK_37
  /\ req[1] = "set_fmt"
  /\ io = <<EvFmt(1920, 1080)>>
  /\ t_out = <<[try |-> FALSE, width |-> 1920, height |-> 1080,
                code |-> MEDIA_BUS_FMT_SRGGB10_1X10]>>
  /\ bpp = 10
  /\ ctrl.pixel_rate = 178200000

\* C18: after a successful start of streaming, vmax is 750 when the active
\* mode is 720 lines high and 1125 when it is 1080 lines high.
C18_VmaxOfMode ==
  (req = <<"stream_on", 0>> /\ streaming) =>
    /\ imx290_modes_ptr(nlanes)[current_mode].height = 720 => vmax = 750
    /\ imx290_modes_ptr(nlanes)[current_mode].height = 1080 => vmax = 1125

\* a start at 720p
C18_Witness ==
  /\ req = <<"stream_on", 0>>
  /\ streaming
  /\ imx290_modes_ptr(nlanes)[current_mode].height = 720
  /\ vmax = 750
  /\ \E i \in Idx(io, "vmax") : io[i][2] = 750

\* frame rates of the classes FPS_25 .. FPS_60
ClassRate == <<25, 30, 50, 60>>

\* classes whose rate is at least denominator / numerator frames per second
FastEnough(a, b) == {i \in 1..4 : ClassRate[i] * a >= b}

\* C19: setting the frame interval selects the smallest class of 25, 30, 50,
\* 60 whose rate is at least the rate asked for (denominator / numerator),
\* or 60 when no class is fast enough; the class is stored as fps and its
\* interval is handed back, with return value 0.
C19_SmallestClass ==
  (t_in.fn = "interval" /\ req[1] = "s_frame_interval"
     /\ (t_in.numerator > 0 \/ t_in.denominator > 0)) =>
    /\ req[2] = 0
    /\ fps \in 0..3
    /\ IF FastEnough(t_in.numerator, t_in.denominator) = {}
       THEN ClassRate[fps + 1] = 60
       ELSE /\ fps + 1 \in FastEnough(t_in.numerator, t_in.denominator)
            /\ \A i \in FastEnough(t_in.numerator, t_in.denominator) :
                 ClassRate[fps + 1] <= ClassRate[i]
    /\ t_out = <<<<1, ClassRate[fps + 1]>>>>

\* 2/75 s asks for 37.5 frames per second: class 50
C19_Witness ==
  /\ t_in = [fn |-> "interval", numerator |-> 2, denominator |-> 75]
  /\ req = <<"s_frame_interval", 0>>
  /\ fps = FPS_50
  /\ t_out = <<<<1, 50>>>>

\* the link frequencies of the table selected by lanes and clock
SelectedFreqs(n, hz) ==
  LET tab == imx290_link_freqs_ptr(n, IF hz = 37125000 THEN INCK_37 ELSE INCK_74)
  IN {tab[i] : i \in 1..Len(tab)}
Declared(lf) == {lf[j] : j \in 1..Len(lf)}

\* C20: with 2 or 4 lanes, a supported clock and the later steps of the
\* construction succeeding, the construction fails exactly when the declared
\* link-frequency set is empty or lacks a frequency of the selected table;
\* with a clock other than 37,125,000 or 74,250,000 Hz it always fails.
C20_LinkFreqsChecked ==
  (t_in.fn = "probe" /\ t_out # <<>> /\ t_in.nlanes \in {2, 4}) =>
    IF t_in.hz \in {37125000, 74250000}
    THEN /\ t_in.later = 0 =>
              ((t_out[1].ret # 0) <=>
                 (\/ Declared(t_in.lf) = {}
                  \/ \E f \in SelectedFreqs(t_in.nlanes, t_in.hz) : f \notin Declared(t_in.lf)))
         /\ (\/ Declared(t_in.lf) = {}
             \/ \E f \in SelectedFreqs(t_in.nlanes, t_in.hz) : f \notin Declared(t_in.lf))
              => t_out[1].ret < 0
    ELSE t_out[1].ret < 0

\* the frequency of 1080p is declared, that of 720p is not
C20_Witness ==
  /\ t_in = [fn |-> "probe", nlanes |-> 2, hz |-> 37125000, lf |-> <<445500000>>, later |-> 0]
  /\ t_out = <<[ret |-> EINVAL]>>

-----------------------------------------------------------------------------
(* Properties of the write helpers, the formats and the tables *)

\* C23: a table application that writes all its matching entries ends with
\* exactly one settle delay of 10 ms, after the last write and before it
\* returns 0; an application in which a write fails returns the error with
\* no settle delay.
C23_SettleOnSuccessOnly ==
  (t_in.fn = "array" /\ t_out # <<>>) =>
    \A evs \in {t_out[1].io} :
      IF \A i \in Idx(evs, "w") : evs[i][4] = 0
      THEN /\ t_out[1].ret = 0
           /\ Idx(evs, "sleep") = {Len(evs)}
           /\ evs[Len(evs)] = EvSleep(10000)
      ELSE /\ t_out[1].ret < 0
           /\ Idx(evs, "sleep") = {}

\* two writes, then the delay
C23_Witness ==
  /\ t_in.fn = "array"
  /\ t_out # <<>>
  /\ t_out[1].ret = 0
  /\ Len(t_out[1].io) = 3
  /\ t_out[1].io[1][1] = "w"
  /\ t_out[1].io[2][1] = "w"
  /\ t_out[1].io[3] = EvSleep(10000)

\* the writes of a buffered write as <<address, value>>: HOLD=1, the bytes
\* of the value from the least significant at ascending addresses (16-bit
\* register addresses), HOLD=0
BufferedPairs(address_low, nr_regs, value) ==
  <<<<IMX290_REGHOLD, 1>>>> \o
  [i \in 1..nr_regs |-> <<(address_low + i - 1) % 65536, (value \div (256 ^ (i - 1))) % 256>>] \o
  <<<<IMX290_REGHOLD, 0>>>>

\* C24: the writes of the buffered write helper are a prefix of HOLD=1, byte
\* i of the value at base + i for i = 0..n-1, HOLD=0.  All of them are issued
\* when it returns 0; when a write fails the sequence ends with that write
\* and its error is returned, with no HOLD=0 after it.
C24_BufferedBracket ==
  (t_in.fn = "buffered" /\ t_out # <<>>) =>
    \A evs \in {t_out[1].io} :
      \A exp \in {BufferedPairs(t_in.address_low, t_in.nr_regs, t_in.value)} :
        /\ Len(evs) >= 1
        /\ Len(evs) <= Len(exp)
        /\ \A i \in 1..Len(evs) :
             /\ evs[i][1] = "w"
             /\ <<evs[i][2], evs[i][3]>> = exp[i]
             /\ i < Len(evs) => evs[i][4] = 0
        /\ t_out[1].ret = evs[Len(evs)][4]
        /\ t_out[1].ret = 0 => Len(evs) = Len(exp)

\* the second of four bytes fails: HOLD stays asserted
C24_Witness ==
  /\ t_in = [fn |-> "buffered", address_low |-> 12320, nr_regs |-> 4, value |-> 16909060]
  /\ t_out # <<>>
  /\ t_out[1].ret = EIO
  /\ Len(t_out[1].io) = 3
  /\ t_out[1].io[2] = EvWrite(12320, 4, 0)
  /\ t_out[1].io[3] = EvWrite(12321, 3, EIO)

\* x / y rounded to the nearest integer, halves upwards
Round(x, y) == (2 * x + y) \div (2 * y)

\* C25: the exposure update writes HOLD=1, then raw = vmax - 2 - d as
\* 0x3020 = bits 0-7, 0x3021 = bits 8-15, 0x3022 = bit 16, then HOLD=0, where
\* d = round(v * (vmax - 2) / 10000), replaced by 1 when that is 0.
C25_ExposureRounded ==
  (t_in.fn = "exposure" /\ t_out # <<>>) =>
    \A d \in {Round(t_in.value * (t_in.vmax - 2), EXPOSURE_MAX)} :
      \A raw \in {t_in.vmax - 2 - (IF d = 0 THEN 1 ELSE d)} :
        Writes(t_out[1].io) =
          << EvWrite(IMX290_REGHOLD, 1, 0),
             EvWrite(12320, raw % 256, 0),
             EvWrite(12321, (raw \div 256) % 256, 0),
             EvWrite(12322, (raw \div 65536) % 2, 0),
             EvWrite(IMX290_REGHOLD, 0, 0) >>

\* the writes of a log as <<address, value>>
WritePairs(evs) == [i \in 1..Len(Writes(evs)) |-> <<Writes(evs)[i][2], Writes(evs)[i][3]>>]

\* the writes a control update issues when b bits per pixel are stored
CtrlWritesAt(b, id, v) == WritePairs(imx290_set_ctrl([D EXCEPT !.bpp = b], id, v, NoFail, 0).io)

\* C21: set_fmt issues no bus write, and no control update that can follow
\* it on a powered device writes anything else than it would have written
\* without the set_fmt.  (Stop-streaming writes constants.)
C21_FmtNoRegisterEffect ==
  [][(req[1] = "none" /\ req'[1] = "set_fmt") =>
       /\ Writes(io') = <<>>
       /\ pm_runtime_get_if_in_use =>
            \A id \in DOMAIN CtrlVals : \A v \in CtrlVals[id] \ {ctrl[id]} :
              CtrlWritesAt(bpp', id, v) = CtrlWritesAt(bpp, id, v)]_vars

\* C27: a conversion-gain update of a powered device writes HOLD=1, then
\* register 0x3009 once, then HOLD=0; the value is 0x01 in the classes 50 and
\* 60, 0x02 in the classes 25 and 30, with bit 4 set for LCG (menu item 1)
\* and clear for HCG (menu item 0).
C27_CgSwitchValue ==
  (t_in.fn = "cg_switch" /\ t_out # <<>>) =>
    \A exp \in {<< <<IMX290_REGHOLD, 1>>,
                   <<12297, (IF t_in.cfg.fps \in {FPS_50, FPS_60} THEN 1 ELSE 2)
                            + (IF t_in.value = 1 THEN 16 ELSE 0)>>,
                   <<IMX290_REGHOLD, 0>> >>} :
      \A W \in {WritePairs(t_out[1].io)} :
        /\ Len(W) <= 3
        /\ \A k \in 1..Len(W) : W[k] = exp[k]
        /\ t_out[1].ret = 0 => Len(W) = 3
        /\ t_out[1].ret = 0 <=> (\A i \in Idx(t_out[1].io, "w") : t_out[1].io[i][4] = 0)

\* LCG at 25 frames per second: 0x12
C27_Witness ==
  /\ t_in.fn = "cg_switch"
  /\ t_in.cfg.fps = FPS_25
  /\ t_in.value = 1
  /\ t_out # <<>>
  /\ t_out[1].ret = 0
  /\ WritePairs(t_out[1].io) = << <<IMX290_REGHOLD, 1>>, <<12297, 18>>, <<IMX290_REGHOLD, 0>> >>

\* exposure values tried on the states in which vmax is unset
ExposureSamples == {0, 1, 5000, EXPOSURE_MAX}

\* C26: the device starts with vmax = 0 and vmax changes only in the locked
\* section of start-streaming, after the mode table has been applied; while
\* vmax is 0 an exposure update of the powered device writes nothing and
\* returns 0; the control replay of start-streaming comes after vmax is set
\* and writes the held exposure value.
C26_ExposureNeedsVmax ==
  /\ vmax = 0
  /\ [][vmax' # vmax => (pc = "locked" /\ StepOk(3) /\ vmax' # 0)]_vars
  /\ [](vmax = 0 =>
          \A v \in ExposureSamples :
            /\ imx290_set_ctrl(D, "exposure", v, NoFail, 0).io = <<>>
            /\ imx290_set_ctrl(D, "exposure", v, NoFail, 0).ret = 0)
  /\ []((StreamRequest /\ StepOk(5)) =>
          /\ vmax # 0
          /\ StepOk(4)
          /\ \E i \in Idx(io, "w") :
               /\ MarkerAt(4) < i
               /\ i < MarkerAt(5)
               /\ io[i][2] = 12320
               /\ io[i][3] = (vmax - 2 - exposure_lines(vmax, ctrl.exposure)) % 256)

\* the control replay of a start at 1080p has written the exposure registers
C26_Witness ==
  /\ StreamRequest
  /\ StepOk(5)
  /\ vmax = 1125
  /\ \E i \in Idx(io, "w") : MarkerAt(4) < i /\ i < MarkerAt(5) /\ io[i][2] = 12320

\* C28: the link-frequency control holds the link_freq_index of the current
\* mode and the pixel-rate control holds link_freq * 2 * lanes / bpp of the
\* current mode and pixel depth, in every state; a TRY set_fmt leaves the
\* current mode, the pixel depth, the current format and both controls as
\* they were.
C28_ReadOnlyControls ==
  /\ [](\A X \in {Wide(imx290_link_freqs_ptr(nlanes, inck)
                          [imx290_modes_ptr(nlanes)[current_mode].link_freq_index + 1],
                        2 * nlanes)} :
         \A P \in {Wide(ctrl.pixel_rate, bpp)} :
           /\ ctrl.link_freq = imx290_modes_ptr(nlanes)[current_mode].link_freq_index
           /\ WideLe(P, X)
           /\ WideLt(X, WideAdd(P, bpp)))
  /\ [][(req[1] = "none" /\ req'[1] = "set_fmt" /\ t_out'[1].try) =>
          UNCHANGED <<current_mode, bpp, code, ctrl>>]_vars

\* the active format set to 1280x720 at 12 bits per pixel on 4 lanes
C28_Witness ==
  /\ req[1] = "set_fmt"
  /\ nlanes = 4
  /\ t_out = <<[try |-> FALSE, width |-> 1280, height |-> 720,
                code |-> MEDIA_BUS_FMT_SRGGB12_1X12]>>
  /\ bpp = 12
  /\ ctrl.link_freq = 1
  /\ ctrl.pixel_rate = 198000000

\* the register addresses occurring in a table
TableAddrs(settings) == {settings[k][1] : k \in DOMAIN settings}

\* C30: a successful application of the global-init, 1080p, 720p or power-on
\* table, under each of the 16 configurations, writes every register address
\* occurring in the table exactly once.
C30_EachAddressOnce ==
  (t_in.fn = "table" /\ t_out # <<>> /\ t_out[1].ret = 0) =>
     \A W \in {Writes(t_out[1].io)} :
       \A a \in TableAddrs(SettingsTables[t_in.tab]) :
         Cardinality({k \in DOMAIN W : W[k][2] = a}) = 1

\* the 1080p table applied with success on 4 lanes at 60 frames per second
C30_Witness ==
  /\ t_in.fn = "table"
  /\ t_in.tab = "mode_1080p"
  /\ t_in.cfg = [fps |-> FPS_60, nlanes |-> 4, inck |-> INCK_74]
  /\ t_out # <<>>
  /\ t_out[1].ret = 0
  /\ Len(Writes(t_out[1].io)) = Cardinality(TableAddrs(imx290_1080p_settings))

\* the <<address, value>> pairs of the entries of a table a configuration selects
Selected(cfg, settings) ==
  WritePairs(imx290_set_register_array(cfg, settings, NoFail, 0).io)

\* the writes of a log between the end of step `from` and the end of step `to`
Between(evs, from, to) ==
  WritePairs(SubSeq(evs, Min(Idx(evs, from)) + 1, Min(Idx(evs, to)) - 1))

\* the modes whose register table a finished start wrote
ModesWritten(evs) ==
  {m \in DOMAIN imx290_modes_ptr(nlanes) :
     Between(evs, "write_current_format", "current_mode")
       = Selected(Cfg, imx290_modes_ptr(nlanes)[m].data)}

\* C29: with set_fmt running against a start of streaming, a start that
\* returns 0 leaves vmax and the WINMODE bits of the cached flip byte at the
\* values of the mode whose register table it wrote: 1125 and 0 for 1080
\* lines, 750 and 1 for 720 lines.
C29_StartMatchesWrittenMode ==
  (req = <<"stream_on", 0>> /\ streaming) =>
    \A m \in ModesWritten(io) :
      /\ vmax = (IF imx290_modes_ptr(nlanes)[m].height = 1080 THEN 1125 ELSE 750)
      /\ (reg_3007 \div 16) % 8 = (IF imx290_modes_ptr(nlanes)[m].height = 1080 THEN 0 ELSE 1)

\* C22: every read and write of the cached flip byte, of vmax, of the current
\* mode and of the current format, by get_fmt, set_fmt, the flip, exposure
\* and test-pattern updates and start-streaming, is made by a thread that
\* holds imx290->lock.
C22_AccessUnderLock ==
  (t_in.fn = "threads" /\ t_out.last # <<>>
     /\ t_out.last[3] \in {"reg_3007", "vmax", "current_mode", "current_format"}) =>
    t_out.last[4] = t_out.last[1]

-----------------------------------------------------------------------------
(* Properties of whole sessions *)

\* the usage count at the pm_runtime_get_sync of the request in the log
RefBefore(evs) == evs[Min(Idx(evs, "pm_runtime_get_sync"))][2]

\* C34: a stream-enable that fails, at power-up or at any step of
\* start-streaming, leaves the power reference count at its value before the
\* request; a successful one holds exactly one reference more; the
\* stream-disable that follows releases exactly one reference.
C34_StreamRefBalanced ==
  /\ [](req[1] = "stream_on" =>
          usage = RefBefore(io) + (IF req[2] = 0 THEN 1 ELSE 0))
  /\ [][/\ (pc = "idle" /\ pc' # "idle") => usage' = usage + 1
        /\ (pc # "idle" /\ req'[1] = "stream_on" /\ req'[2] # 0) => usage' = usage - 1
        /\ (pc # "idle" /\ ~(req'[1] = "stream_on" /\ req'[2] # 0)) => usage' = usage
        /\ (pc = "idle" /\ req[1] = "none" /\ req'[1] = "stream_on") => usage' = usage
        /\ (req[1] = "none" /\ req'[1] = "stream_off") => usage' = usage - 1]_vars

\* a start that failed at a step of start-streaming while s_power holds a
\* reference of its own
C34_Witness ==
  /\ req[1] = "stream_on"
  /\ req[2] < 0
  /\ Idx(io, "imx290_start_streaming") # {}
  /\ RefBefore(io) = 1
  /\ usage = 1

\* C32: after any sequence of power-on attempts, succeeding or failing at any
\* step, and power-offs, the clock and the supplies are enabled exactly once
\* and reset is deasserted when the device is powered; when it is off,
\* neither is enabled and reset is asserted.
C32_ResourcesBalanced ==
  /\ powered => (xclk = 1 /\ supplies = 1 /\ rst = 0)
  /\ ~powered => (xclk = 0 /\ supplies = 0 /\ rst = 1)

\* a second power-on attempt in a row that failed, this one at the supplies
C32_Witness ==
  /\ ~powered
  /\ usage = 2
  /\ xclk = 0
  /\ \E i \in Idx(io, "regulator_bulk_enable") : io[i][4] # 0
  /\ \E p \in Idx(io, "imx290_power_on") : io[p][4] # 0

\* the log is that of a streaming session: the stream-enable and the requests
\* served since
SessionLog == pc = "idle" /\ streaming /\ req = <<"stream_on", 0>>

\* positions of the writes to a register in a log
WritesTo(evs, addr) == {k \in DOMAIN evs : evs[k][1] = "w" /\ evs[k][2] = addr}

\* no write of the log failed
NoFailure(evs) == \A k \in DOMAIN evs : evs[k][1] = "w" => evs[k][4] = 0

Max(S) == CHOOSE k \in S : \A j \in S : j <= k

\* C31: with no failing bus write, whenever the device streams and no request
\* is in progress, the value last written to 0x3007 is the cached flip byte,
\* its bits 0 and 1 are the V-flip and H-flip control values and its bits 4-6
\* the WINMODE of the mode programmed at the stream start (0 for 1080 lines,
\* 1 for 720 lines), whatever flip updates and format changes came before.
C31_FlipByteInSync ==
  (SessionLog /\ NoFailure(io)) =>
    \A L \in {io[Max(WritesTo(io, 12295))][3]} :
      /\ L = reg_3007
      /\ Bit(L, 0) = ctrl.vflip
      /\ Bit(L, 1) = ctrl.hflip
      /\ \A B \in {Writes(SubSeq(io, Min(Idx(io, "write_current_format")) + 1,
                                  Min(Idx(io, "current_mode")) - 1))} :
           \A m \in DOMAIN imx290_modes_ptr(nlanes) :
             B = Writes(imx290_set_register_array(Cfg, imx290_modes_ptr(nlanes)[m].data,
                                                  NoFail, 0).io) =>
               (L \div 16) % 8
                 = (IF imx290_modes_ptr(nlanes)[m].height = 1080 THEN 0 ELSE 1)

\* a 720p session in which the format was set to 1920x1080 and H-flip was
\* switched on afterwards
C31_Witness ==
  /\ SessionLog
  /\ NoFailure(io)
  /\ reg_3007 = 18
  /\ imx290_modes_ptr(nlanes)[current_mode].height = 1080
  /\ \E i \in Idx(io, "set_fmt"), j \in Idx(io, "hflip") : i < j

\* C33: while the device streams, every value written to 0x3009 carries in
\* bits 0-1 the frame-rate select that the global-init table wrote at the
\* stream start, whatever frame-interval changes and conversion-gain updates
\* are interleaved; a conversion-gain update changes bit 4 only.
C33_FrameRateSelectKept ==
  SessionLog =>
    \A W \in {WritesTo(io, 12297)} :
      \A k \in W :
        /\ io[k][3] % 4 = io[Min(W)][3] % 4
        /\ \A p \in {Max({j \in W : j <= k})} :
             io[k][3] - 16 * Bit(io[k][3], 4) = io[p][3] - 16 * Bit(io[p][3], 4)

=============================================================================
